---------------------------- MODULE Spec2Model ----------------------------
(***************************************************************************)
(* State-machine model of the field kernel (crates/kernel): the expression *)
(* algebra, the topology program codec (expr_to_topology and               *)
(* topology_to_expr), the value and interval interpreters and the          *)
(* critical-point solver.                                                  *)
(*                                                                         *)
(* Numbers.  An f64 is modelled as an extended rational <<n, d>>:          *)
(*   d > 0, gcd(|n|, d) = 1   the finite value n/d                         *)
(*   <<1, 0>>, <<-1, 0>>      +infinity, -infinity                         *)
(*   <<0, 0>>                 NaN                                          *)
(* Arithmetic follows the IEEE-754 rules for infinities and NaN and is     *)
(* exact on finite values: rounding and overflow are not modelled, and     *)
(* neither is the sign of zero (x / 0 is +infinity for x > 0).             *)
(***************************************************************************)
EXTENDS Integers, Sequences, FiniteSets, TLC

VARIABLES
    source,     \* codec: the expression handed to expr_to_topology, or NoExpr
    program,    \* codec: the TopologyProgram being decoded [nodes, root]
    built,      \* codec: topology_to_expr's id table (HashMap<String, Expr>)
    pos,        \* codec: number of nodes the loop of topology_to_expr has consumed
    decoded,    \* codec: topology_to_expr's outcome, Running until it returns
    exprs,      \* codec (history): the expression built for each node consumed
    previous,   \* codec (history): the outcome of an earlier call on the same nodes and root
    field,      \* interval: the expression handed to eval_interval and eval
    box,        \* interval: the box, an Interval for each of x, y, z
    point,      \* interval: the point q of the box handed to eval
    enclosure,  \* interval: eval_interval's result, None until it is computed
    value,      \* interval: eval's result, None until it is computed
    dual,       \* interval: eval_ad's result, None until it is computed
    expr,       \* solver: the expression handed to refine_critical
    seed,       \* solver: the x, y, z handed to refine_critical
    here,       \* solver: the current x, y, z of refine_critical
    iter,       \* solver: rounds of the loop completed
    pc,         \* solver: "test", "solve" or "done"
    result,     \* solver: Pending until refine_critical returns None or Some(point)
    tests,      \* solver (history): convergence tests made
    updates,    \* solver (history): Newton updates applied
    inbox,      \* server: the frames the websocket stream has yet to deliver
    request,    \* server: the Request route_request is working on, or None
    response,   \* server: the Response about to be sent, or None
    outbox,     \* server: the responses sent on the socket, in order
    wspc,       \* server: where handle_ws is: "recv", "decode", "solve", "send",
                \*         "closed" (the loop ended) or "panicked"
    texts       \* server (history): text frames received

-----------------------------------------------------------------------------
(* f64 arithmetic *)

NaN == <<0, 0>>
PInf == <<1, 0>>
NInf == <<-1, 0>>

IsNaN(a) == a = NaN
IsInf(a) == a[2] = 0 /\ a[1] # 0
IsFinite(a) == a[2] # 0

Abs(i) == IF i < 0 THEN -i ELSE i
Sgn(i) == IF i < 0 THEN -1 ELSE IF i > 0 THEN 1 ELSE 0

RECURSIVE GCD(_, _)
GCD(a, b) == IF b = 0 THEN a ELSE GCD(b, a % b)

\* the finite value n/d, d # 0, in lowest terms with a positive denominator
Rat(n, d) ==
    LET g == GCD(Abs(n), Abs(d))
        s == IF d < 0 THEN -1 ELSE 1
    IN  <<(s * n) \div g, (s * d) \div g>>

Int2Num(i) == <<i, 1>>
Zero == <<0, 1>>
One == <<1, 1>>
Half == <<1, 2>>

SignOf(a) == Sgn(a[1])

NNeg(a) == <<-a[1], a[2]>>

NAdd(a, b) ==
    IF IsNaN(a) \/ IsNaN(b) THEN NaN
    ELSE IF IsInf(a) THEN (IF IsInf(b) /\ b # a THEN NaN ELSE a)
    ELSE IF IsInf(b) THEN b
    ELSE LET g == GCD(a[2], b[2])
         IN  Rat(a[1] * (b[2] \div g) + b[1] * (a[2] \div g), (a[2] \div g) * b[2])

NSub(a, b) == NAdd(a, NNeg(b))

NMul(a, b) ==
    IF IsNaN(a) \/ IsNaN(b) THEN NaN
    ELSE IF IsInf(a) \/ IsInf(b)
         THEN (IF SignOf(a) = 0 \/ SignOf(b) = 0 THEN NaN
               ELSE <<SignOf(a) * SignOf(b), 0>>)
    ELSE LET g1 == GCD(Abs(a[1]), b[2])
             g2 == GCD(Abs(b[1]), a[2])
         IN  Rat((a[1] \div g1) * (b[1] \div g2), (a[2] \div g2) * (b[2] \div g1))

NDiv(a, b) ==
    IF IsNaN(a) \/ IsNaN(b) THEN NaN
    ELSE IF IsInf(a)
         THEN (IF IsInf(b) THEN NaN
               ELSE <<SignOf(a) * (IF SignOf(b) < 0 THEN -1 ELSE 1), 0>>)
    ELSE IF IsInf(b) THEN Zero
    ELSE IF b[1] = 0 THEN (IF a[1] = 0 THEN NaN ELSE <<SignOf(a), 0>>)
    ELSE NMul(a, Rat(b[2], b[1]))

\* a < b and a <= b as f64 comparisons: false when either side is NaN
NLt(a, b) ==
    IF IsNaN(a) \/ IsNaN(b) THEN FALSE
    ELSE IF IsInf(a) \/ IsInf(b)
         THEN (IF a = b THEN FALSE ELSE a = NInf \/ b = PInf)
    ELSE LET g == GCD(a[2], b[2])
         IN  a[1] * (b[2] \div g) < b[1] * (a[2] \div g)

NLe(a, b) == ~IsNaN(a) /\ ~IsNaN(b) /\ (a = b \/ NLt(a, b))
NGt(a, b) == NLt(b, a)
NGe(a, b) == NLe(b, a)

\* f64::min and f64::max: the other operand when one is NaN
NMin(a, b) == IF IsNaN(a) THEN b ELSE IF IsNaN(b) THEN a ELSE IF NLt(b, a) THEN b ELSE a
NMax(a, b) == IF IsNaN(a) THEN b ELSE IF IsNaN(b) THEN a ELSE IF NLt(a, b) THEN b ELSE a

NAbs(a) == <<Abs(a[1]), a[2]>>

\* f64::clamp(lo, hi) with lo <= hi: NaN stays NaN
NClamp(a, lo, hi) == IF NLt(a, lo) THEN lo ELSE IF NGt(a, hi) THEN hi ELSE a


-----------------------------------------------------------------------------
(* expr.rs: the expression algebra *)

Const(v) == [op |-> "Const", c |-> v]
X == [op |-> "X"]
Y == [op |-> "Y"]
Z == [op |-> "Z"]
Add(a, b) == [op |-> "Add", a |-> a, b |-> b]
Sub(a, b) == [op |-> "Sub", a |-> a, b |-> b]
Mul(a, b) == [op |-> "Mul", a |-> a, b |-> b]
Div(a, b) == [op |-> "Div", a |-> a, b |-> b]
Neg(a) == [op |-> "Neg", a |-> a]
Sin(a) == [op |-> "Sin", a |-> a]
Cos(a) == [op |-> "Cos", a |-> a]
Exp(a) == [op |-> "Exp", a |-> a]
Min(a, b) == [op |-> "Min", a |-> a, b |-> b]
Max(a, b) == [op |-> "Max", a |-> a, b |-> b]
SMin(a, b, k) == [op |-> "SMin", a |-> a, b |-> b, k |-> k]
SMax(a, b, k) == [op |-> "SMax", a |-> a, b |-> b, k |-> k]
Translate(e, dx, dy, dz) == [op |-> "Translate", expr |-> e, dx |-> dx, dy |-> dy, dz |-> dz]
RotateZ(e, deg) == [op |-> "RotateZ", expr |-> e, deg |-> deg]

BinaryOps == {"Add", "Sub", "Mul", "Div", "Min", "Max"}
UnaryOps == {"Neg", "Sin", "Cos", "Exp"}
SmoothOps == {"SMin", "SMax"}

sphere(r) ==
    Sub(Add(Add(Mul(X, X), Mul(Y, Y)), Mul(Z, Z)), Const(NMul(r, r)))

torus(major_r, minor_r) ==
    LET q == Add(Add(Mul(X, X), Mul(Y, Y)), Mul(Z, Z))
        t == Sub(q, Const(NAdd(NMul(major_r, major_r), NMul(minor_r, minor_r))))
    IN  Sub(Mul(t, t),
            Mul(Const(NMul(NMul(Int2Num(4), major_r), major_r)),
                Add(Mul(X, X), Mul(Y, Y))))

z_slab(z0, z1) == Max(Sub(Const(z0), Z), Sub(Z, Const(z1)))

cylinder(radius, height) ==
    LET r2 == Sub(Add(Mul(X, X), Mul(Y, Y)), Const(NMul(radius, radius)))
        zcap == z_slab(Zero, height)
    IN  Max(r2, zcap)

box3(sx, sy, sz) ==
    LET hx == NMul(sx, Half)
        hy == NMul(sy, Half)
        hz == NMul(sz, Half)
        x == Sub(Mul(X, Const(One)), Const(hx))
        xn == Sub(Const(NNeg(hx)), X)
        y == Sub(Mul(Y, Const(One)), Const(hy))
        yn == Sub(Const(NNeg(hy)), Y)
        z == Sub(Mul(Z, Const(One)), Const(hz))
        zn == Sub(Const(NNeg(hz)), Z)
    IN  Max(Max(x, xn), Max(Max(y, yn), Max(z, zn)))

tube(outer_r, inner_r, half_h) ==
    LET r2 == Add(Mul(X, X), Mul(Y, Y))
        z2 == Mul(Z, Z)
        outer == Sub(r2, Const(NMul(outer_r, outer_r)))
        inner == Sub(Const(NMul(inner_r, inner_r)), r2)
        caps == Sub(z2, Const(NMul(half_h, half_h)))
    IN  Max(Max(outer, inner), caps)

\* Option<T>
None == <<"None">>
Some(v) == <<"Some", v>>

-----------------------------------------------------------------------------
(* eval.rs: the value interpreter *)

\* bound of the model: exp overflows to +infinity above ExpMax and underflows
\* to 0 below -ExpMax (f64: above 709.78 and below -745.13)
ExpMax == 16

RECURSIVE Pow2(_)
Pow2(k) == IF k = 0 THEN 1 ELSE 2 * Pow2(k - 1)

\* f64::exp.  The rationals have no e^v: the model takes the piecewise-linear
\* interpolation of 2^v through the integers, which like exp is positive,
\* strictly increasing, 1 at 0, and saturates to +infinity and to 0
FExp(v) ==
    IF IsNaN(v) THEN NaN
    ELSE IF v = PInf \/ (IsFinite(v) /\ NGt(v, Int2Num(ExpMax))) THEN PInf
    ELSE IF v = NInf \/ (IsFinite(v) /\ NLt(v, Int2Num(-ExpMax))) THEN Zero
    ELSE LET fl == v[1] \div v[2]
             frac == Rat(v[1] - fl * v[2], v[2])
             scale == IF fl >= 0 THEN <<Pow2(fl), 1>> ELSE <<1, Pow2(-fl)>>
         IN  NMul(scale, NAdd(One, frac))

\* f64::sin and f64::cos.  The model takes the rational point of the unit
\* circle with parameter v, (2v/(1+v^2), (1-v^2)/(1+v^2)): both are in [-1, 1],
\* sin is odd, cos is even, sin^2 + cos^2 = 1, and a non-finite argument gives NaN
FSin(v) ==
    IF ~IsFinite(v) THEN NaN
    ELSE NDiv(NMul(Int2Num(2), v), NAdd(One, NMul(v, v)))

FCos(v) ==
    IF ~IsFinite(v) THEN NaN
    ELSE NDiv(NSub(One, NMul(v, v)), NAdd(One, NMul(v, v)))

Point(x, y, z) == [x |-> x, y |-> y, z |-> z]

\* let h = (0.5 + 0.5 * (vb - va) / k).clamp(0.0, 1.0);
\* vb * (1.0 - h) + va * h - k * h * (1.0 - h)
smin_value(va, vb, k) ==
    LET h == NClamp(NAdd(Half, NDiv(NMul(Half, NSub(vb, va)), k)), Zero, One)
    IN  NSub(NAdd(NMul(vb, NSub(One, h)), NMul(va, h)), NMul(NMul(k, h), NSub(One, h)))

\* let h = (0.5 - 0.5 * (vb - va) / k).clamp(0.0, 1.0);
\* vb * (1.0 - h) + va * h + k * h * (1.0 - h)
smax_value(va, vb, k) ==
    LET h == NClamp(NSub(Half, NDiv(NMul(Half, NSub(vb, va)), k)), Zero, One)
    IN  NAdd(NAdd(NMul(vb, NSub(One, h)), NMul(va, h)), NMul(NMul(k, h), NSub(One, h)))

\* the variants the match of eval has an arm for (11-46); the matches of
\* eval_ad (ad.rs 54-133) and eval_interval (interval.rs 16-73) have arms for
\* the same variants: none of the three has one for Expr::RotateZ
MatchArms ==
    {"Const", "X", "Y", "Z", "Add", "Sub", "Mul", "Div", "Neg", "Sin", "Cos", "Exp",
     "Min", "Max", "SMin", "SMax", "Translate"}

\* every node of e is a variant the interpreters have an arm for
RECURSIVE HasArms(_)
HasArms(e) ==
    /\ e.op \in MatchArms
    /\ IF e.op \in BinaryOps \cup SmoothOps THEN HasArms(e.a) /\ HasArms(e.b)
       ELSE IF e.op \in UnaryOps THEN HasArms(e.a)
       ELSE IF e.op = "Translate" THEN HasArms(e.expr)
       ELSE TRUE

\* the outcome of an interpreter on an expression with a node it has no arm for
Unhandled == <<"Unhandled">>

Shift_None(p, dx, dy, dz) == p

\* Point { x: p.x - dx, y: p.y - dy, z: p.z - dz }
Shift(p, dx, dy, dz) == Point(NSub(p.x, dx), NSub(p.y, dy), NSub(p.z, dz))

\* the match of eval has no arm for Expr::RotateZ
RECURSIVE eval(_, _)
eval(e, p) ==
    CASE e.op = "Const" -> e.c
      [] e.op = "X" -> p.x
      [] e.op = "Y" -> p.y
      [] e.op = "Z" -> p.z
      [] e.op = "Add" -> NAdd(eval(e.a, p), eval(e.b, p))
      [] e.op = "Sub" -> NSub(eval(e.a, p), eval(e.b, p))
      [] e.op = "Mul" -> NMul(eval(e.a, p), eval(e.b, p))
      [] e.op = "Div" -> NDiv(eval(e.a, p), eval(e.b, p))
      [] e.op = "Neg" -> NNeg(eval(e.a, p))
      [] e.op = "Sin" -> FSin(eval(e.a, p))
      [] e.op = "Cos" -> FCos(eval(e.a, p))
      [] e.op = "Exp" -> FExp(eval(e.a, p))
      [] e.op = "Min" -> NMin(eval(e.a, p), eval(e.b, p))
      [] e.op = "Max" -> NMax(eval(e.a, p), eval(e.b, p))
      [] e.op = "SMin" -> smin_value(eval(e.a, p), eval(e.b, p), e.k)
      [] e.op = "SMax" -> smax_value(eval(e.a, p), eval(e.b, p), e.k)
      [] e.op = "Translate" -> eval(e.expr, Shift(p, e.dx, e.dy, e.dz))

-----------------------------------------------------------------------------
(* interval.rs: the interval interpreter *)

Interval(lo, hi) == [lo |-> lo, hi |-> hi]

\* p.iter().fold(f64::INFINITY, |m, v| m.min(*v)) over the four corners
FoldMin(p) == NMin(NMin(NMin(NMin(PInf, p[1]), p[2]), p[3]), p[4])

\* p.iter().fold(f64::NEG_INFINITY, |m, v| m.max(*v)) over the four corners
FoldMax(p) == NMax(NMax(NMax(NMax(NInf, p[1]), p[2]), p[3]), p[4])

IvAdd(a, b) == Interval(NAdd(a.lo, b.lo), NAdd(a.hi, b.hi))

IvSub_SameEnds(a, b) == Interval(NSub(a.lo, b.lo), NSub(a.hi, b.hi))

IvSub(a, b) == Interval(NSub(a.lo, b.hi), NSub(a.hi, b.lo))

IvMul(a, b) ==
    LET p == <<NMul(a.lo, b.lo), NMul(a.lo, b.hi), NMul(a.hi, b.lo), NMul(a.hi, b.hi)>>
    IN  Interval(FoldMin(p), FoldMax(p))

IvDiv(a, b) ==
    IF NLe(b.lo, Zero) /\ NGe(b.hi, Zero) THEN Interval(NInf, PInf)
    ELSE LET p == <<NDiv(a.lo, b.lo), NDiv(a.lo, b.hi), NDiv(a.hi, b.lo), NDiv(a.hi, b.hi)>>
         IN  Interval(FoldMin(p), FoldMax(p))

IvNeg(a) == Interval(NNeg(a.hi), NNeg(a.lo))

IvExp(a) == Interval(FExp(a.lo), FExp(a.hi))

IvMin(a, b) == Interval(NMin(a.lo, b.lo), NMin(a.hi, b.hi))

IvMax(a, b) == Interval(NMax(a.lo, b.lo), NMax(a.hi, b.hi))

TranslateBox_Shifted(b, d) == Interval(NSub(b.lo, d), NSub(b.hi, d))

\* Expr::Translate { expr, .. } => eval_interval(expr, x, y, z): the box an
\* axis of the child is given, the offset d being ignored
TranslateBox(b, d) == b

\* the match of eval_interval has no arm for Expr::RotateZ; the Translate arm
\* passes the boxes on unchanged
RECURSIVE eval_interval(_, _, _, _)
eval_interval(e, x, y, z) ==
    CASE e.op = "Const" -> Interval(e.c, e.c)
      [] e.op = "X" -> x
      [] e.op = "Y" -> y
      [] e.op = "Z" -> z
      [] e.op = "Add" -> IvAdd(eval_interval(e.a, x, y, z), eval_interval(e.b, x, y, z))
      [] e.op = "Sub" -> IvSub(eval_interval(e.a, x, y, z), eval_interval(e.b, x, y, z))
      [] e.op = "Mul" -> IvMul(eval_interval(e.a, x, y, z), eval_interval(e.b, x, y, z))
      [] e.op = "Div" -> IvDiv(eval_interval(e.a, x, y, z), eval_interval(e.b, x, y, z))
      [] e.op = "Neg" -> IvNeg(eval_interval(e.a, x, y, z))
      [] e.op \in {"Sin", "Cos"} -> Interval(Int2Num(-1), One)
      [] e.op = "Exp" -> IvExp(eval_interval(e.a, x, y, z))
      [] e.op \in {"Min", "SMin"} ->
            IvMin(eval_interval(e.a, x, y, z), eval_interval(e.b, x, y, z))
      [] e.op \in {"Max", "SMax"} ->
            IvMax(eval_interval(e.a, x, y, z), eval_interval(e.b, x, y, z))
      [] e.op = "Translate" ->
            eval_interval(e.expr, TranslateBox(x, e.dx), TranslateBox(y, e.dy),
                          TranslateBox(z, e.dz))

-----------------------------------------------------------------------------
(* ad.rs: the gradient interpreter *)

AD1(v, g) == [v |-> v, g |-> g]

VAdd(g, h) == <<NAdd(g[1], h[1]), NAdd(g[2], h[2]), NAdd(g[3], h[3])>>
VSub(g, h) == <<NSub(g[1], h[1]), NSub(g[2], h[2]), NSub(g[3], h[3])>>
VScale(g, s) == <<NMul(g[1], s), NMul(g[2], s), NMul(g[3], s)>>
VNeg(g) == <<NNeg(g[1]), NNeg(g[2]), NNeg(g[3])>>

\* AD1::c
ad_c(v) == AD1(v, <<Zero, Zero, Zero>>)

ad_add(a, b) == AD1(NAdd(a.v, b.v), VAdd(a.g, b.g))
ad_sub(a, b) == AD1(NSub(a.v, b.v), VSub(a.g, b.g))

ad_mul_NoCross(a, b) == AD1(NMul(a.v, b.v), VScale(a.g, b.v))

\* g[i] = self.g[i] * rhs.v + rhs.g[i] * self.v
ad_mul(a, b) == AD1(NMul(a.v, b.v), VAdd(VScale(a.g, b.v), VScale(b.g, a.v)))

\* inv = 1.0 / rhs.v; g[i] = (self.g[i] * rhs.v - self.v * rhs.g[i]) * inv * inv
ad_div(a, b) ==
    LET inv == NDiv(One, b.v)
        inv2 == NMul(inv, inv)
    IN  AD1(NMul(a.v, inv), VScale(VSub(VScale(a.g, b.v), VScale(b.g, a.v)), inv2))

\* if va.v < vb.v { va } else { vb }
ad_min(va, vb) == IF NLt(va.v, vb.v) THEN va ELSE vb

\* if va.v > vb.v { va } else { vb }
ad_max(va, vb) == IF NGt(va.v, vb.v) THEN va ELSE vb

ad_smin(va, vb, k) ==
    LET h == NClamp(NAdd(Half, NDiv(NMul(Half, NSub(vb.v, va.v)), k)), Zero, One)
    IN  AD1(smin_value(va.v, vb.v, k), VAdd(VScale(vb.g, NSub(One, h)), VScale(va.g, h)))

ad_smax(va, vb, k) ==
    LET h == NClamp(NSub(Half, NDiv(NMul(Half, NSub(vb.v, va.v)), k)), Zero, One)
    IN  AD1(smax_value(va.v, vb.v, k), VAdd(VScale(vb.g, NSub(One, h)), VScale(va.g, h)))

\* the match of eval_ad has no arm for Expr::RotateZ
RECURSIVE eval_ad(_, _)
eval_ad(e, p) ==
    CASE e.op = "Const" -> ad_c(e.c)
      [] e.op = "X" -> AD1(p.x, <<One, Zero, Zero>>)
      [] e.op = "Y" -> AD1(p.y, <<Zero, One, Zero>>)
      [] e.op = "Z" -> AD1(p.z, <<Zero, Zero, One>>)
      [] e.op = "Add" -> ad_add(eval_ad(e.a, p), eval_ad(e.b, p))
      [] e.op = "Sub" -> ad_sub(eval_ad(e.a, p), eval_ad(e.b, p))
      [] e.op = "Mul" -> ad_mul(eval_ad(e.a, p), eval_ad(e.b, p))
      [] e.op = "Div" -> ad_div(eval_ad(e.a, p), eval_ad(e.b, p))
      [] e.op = "Neg" -> LET a == eval_ad(e.a, p) IN AD1(NNeg(a.v), VNeg(a.g))
      [] e.op = "Sin" ->
            LET a == eval_ad(e.a, p) IN AD1(FSin(a.v), VScale(a.g, FCos(a.v)))
      [] e.op = "Cos" ->
            LET a == eval_ad(e.a, p) IN AD1(FCos(a.v), VScale(a.g, NNeg(FSin(a.v))))
      [] e.op = "Exp" ->
            LET a == eval_ad(e.a, p) IN AD1(FExp(a.v), VScale(a.g, FExp(a.v)))
      [] e.op = "Min" -> ad_min(eval_ad(e.a, p), eval_ad(e.b, p))
      [] e.op = "Max" -> ad_max(eval_ad(e.a, p), eval_ad(e.b, p))
      [] e.op = "SMin" -> ad_smin(eval_ad(e.a, p), eval_ad(e.b, p), e.k)
      [] e.op = "SMax" -> ad_smax(eval_ad(e.a, p), eval_ad(e.b, p), e.k)
      \* eval_ad(expr, x - dx, y - dy, z - dz)
      [] e.op = "Translate" -> eval_ad(e.expr, Shift(p, e.dx, e.dy, e.dz))

-----------------------------------------------------------------------------
(* morse.rs: gradient, hessian, solve3, morse_index, refine_critical *)

gradient(e, p) == eval_ad(e, p).g

\* row i holds the central differences of gradient component i along x, y, z
hessian(e, p, eps) ==
    LET gxp == gradient(e, Point(NAdd(p.x, eps), p.y, p.z))
        gxm == gradient(e, Point(NSub(p.x, eps), p.y, p.z))
        gyp == gradient(e, Point(p.x, NAdd(p.y, eps), p.z))
        gym == gradient(e, Point(p.x, NSub(p.y, eps), p.z))
        gzp == gradient(e, Point(p.x, p.y, NAdd(p.z, eps)))
        gzm == gradient(e, Point(p.x, p.y, NSub(p.z, eps)))
        two_eps == NMul(Int2Num(2), eps)
    IN  [i \in 1..3 |->
            <<NDiv(NSub(gxp[i], gxm[i]), two_eps),
              NDiv(NSub(gyp[i], gym[i]), two_eps),
              NDiv(NSub(gzp[i], gzm[i]), two_eps)>>]

\* v.abs() < 1e-12, computed without forming 10^12: |n|/d < 1e-12 iff
\* |n| * 10^12 < d iff |n| <= ((d - 1) div 10^6) div 10^6
PivotTooSmall(v) ==
    IsFinite(v) /\ Abs(v[1]) <= ((v[2] - 1) \div 1000000) \div 1000000

\* for r in (i + 1)..3 { if a[r][i].abs() > a[pivot][i].abs() { pivot = r } }
RECURSIVE PivotRow(_, _, _, _)
PivotRow(a, i, r, pivot) ==
    IF r > 3 THEN pivot
    ELSE PivotRow(a, i, r + 1,
                  IF NGt(NAbs(a[r][i]), NAbs(a[pivot][i])) THEN r ELSE pivot)

Swap(v, i, j) == [r \in 1..3 |-> IF r = i THEN v[j] ELSE IF r = j THEN v[i] ELSE v[r]]

\* one round of the elimination on column i, the pivot row already in place i:
\* row i is divided by d = a[i][i] from column i on, then every other row r
\* loses f = a[r][i] times row i from column i on
Eliminate(a, b, i) ==
    LET d == a[i][i]
        rowi == [c \in 1..3 |-> IF c >= i THEN NDiv(a[i][c], d) ELSE a[i][c]]
        bi == NDiv(b[i], d)
    IN  [a |-> [r \in 1..3 |->
                  IF r = i THEN rowi
                  ELSE [c \in 1..3 |->
                          IF c >= i THEN NSub(a[r][c], NMul(a[r][i], rowi[c]))
                          ELSE a[r][c]]],
         b |-> [r \in 1..3 |->
                  IF r = i THEN bi ELSE NSub(b[r], NMul(a[r][i], bi))]]

\* the loop for i in 0..3 of solve3 from column i on
RECURSIVE Solve3From(_, _, _)
Solve3From(a, b, i) ==
    IF i > 3 THEN Some(b)
    ELSE LET pivot == PivotRow(a, i, i + 1, i)
         IN  IF PivotTooSmall(a[pivot][i]) THEN None
             ELSE LET next == Eliminate(Swap(a, i, pivot), Swap(b, i, pivot), i)
                  IN  Solve3From(next.a, next.b, i + 1)

solve3(a, b) == Solve3From(a, b, 1)

\* max < 1e-10 for max the largest |a[i][j]|, i < j: |n| * 10^10 < d
OffDiagonalSmall(a) ==
    LET m == NMax(NMax(NAbs(a[1][2]), NAbs(a[1][3])), NAbs(a[2][3]))
        start == NAbs(a[1][2])
    IN  /\ ~IsNaN(start)
        /\ IsFinite(m)
        /\ m[1] <= ((m[2] - 1) \div 100000) \div 100000

CountNegative_OrZero(eigs) == Cardinality({i \in 1..3 : NLe(eigs[i], Zero)})

\* eigs.into_iter().filter(|e| *e < 0.0).count()
CountNegative(eigs) == Cardinality({i \in 1..3 : NLt(eigs[i], Zero)})

\* morse_index(h).  jacobi_eigs leaves a matrix whose off-diagonal entries are
\* below 1e-10 untouched and returns its diagonal.  Otherwise it rotates by
\* angles taken from atan2, cos and sin, which have no rational values: the
\* three numbers it then returns are left open, so the count of negative ones
\* is any of 0..3
morse_index(h) ==
    IF OffDiagonalSmall(h) THEN {CountNegative(<<h[1][1], h[2][2], h[3][3]>>)}
    ELSE 0..3

CriticalPoint(p, f, index) == [x |-> p.x, y |-> p.y, z |-> p.z, f |-> f, index |-> index]

\* for _ in 0..24
MaxIter == 24

\* the finite-difference step refine_critical hands to hessian: 1e-4
HessianEps == <<1, 10000>>

\* g[0] * g[0] + g[1] * g[1] + g[2] * g[2], the square of gn
GradNormSq(g) == NAdd(NAdd(NMul(g[1], g[1]), NMul(g[2], g[2])), NMul(g[3], g[3]))

Converged_Loose(g) == NLt(GradNormSq(g), One)

\* gn < 1e-8 for gn = sqrt(s): s < 1e-16, computed without forming 10^16:
\* n * 10^16 < d iff n <= ((d - 1) div 10^8) div 10^8
Converged(g) ==
    LET s == GradNormSq(g)
    IN  IsFinite(s) /\ s[1] <= ((s[2] - 1) \div 100000000) \div 100000000

IsFinitePoint_Lax(p) == TRUE

\* x.is_finite() && y.is_finite() && z.is_finite()
IsFinitePoint(p) == IsFinite(p.x) /\ IsFinite(p.y) /\ IsFinite(p.z)

LoopContinues_OneMore(i) == i <= MaxIter

\* the loop for _ in 0..24 has rounds left after i completed ones
LoopContinues(i) == i < MaxIter

-----------------------------------------------------------------------------
(* topology.rs: TopologyNode, TopologyProgram and the two transforms *)

\* serde_json::Value as far as the codec reads it: a number, or something that
\* is not a number (null, a string, ...)
JNum(v) == <<"num", v>>
JNull == <<"null">>
JStr == <<"str">>

\* json!(f) of an f64: serde_json has no non-finite numbers and stores Null
ToJson(f) == IF IsFinite(f) THEN JNum(f) ELSE JNull


\* Value::as_f64
as_f64(j) == IF j[1] = "num" THEN Some(j[2]) ELSE None

NoParams == [key \in {} |-> JNull]

\* node.params.get(key).and_then(Value::as_f64)
ParamF64(params, key) == IF key \in DOMAIN params THEN as_f64(params[key]) ELSE None

TopologyNode(id, op, inputs, params) ==
    [id |-> id, op |-> op, inputs |-> inputs, params |-> params]

mk_Stuck(next_id) == "n0"

\* let mk = |next_id| format!("n{}", *next_id)
mk(next_id) == "n" \o ToString(next_id)

EncoderTag(e) ==
    CASE e.op = "Const" -> "const"
      [] e.op = "X" -> "x"
      [] e.op = "Y" -> "y"
      [] e.op = "Z" -> "z"
      [] e.op = "Add" -> "add"
      [] e.op = "Sub" -> "sub"
      [] e.op = "Mul" -> "mul"
      [] e.op = "Div" -> "div"
      [] e.op = "Min" -> "min"
      [] e.op = "Max" -> "max"
      [] e.op = "Neg" -> "neg"
      [] e.op = "Sin" -> "sin"
      [] e.op = "Cos" -> "cos"
      [] e.op = "Exp" -> "exp"
      [] e.op = "SMin" -> "smin"
      [] e.op = "SMax" -> "smax"
      [] e.op = "Translate" -> "translate"
      [] e.op = "RotateZ" -> "rotate_z"

\* the parameter blob the encoder writes for a node
EncoderParams(e) ==
    CASE e.op = "Const" -> ("value" :> ToJson(e.c))
      [] e.op \in SmoothOps -> ("k" :> ToJson(e.k))
      [] e.op = "Translate" ->
            ("dx" :> ToJson(e.dx)) @@ ("dy" :> ToJson(e.dy)) @@ ("dz" :> ToJson(e.dz))
      [] e.op = "RotateZ" -> ("deg" :> ToJson(e.deg))
      [] OTHER -> NoParams

\* fn walk(expr, nodes, next_id) -> String, with the two &mut arguments returned
RECURSIVE walk(_, _, _)
walk(e, nodes, next_id) ==
    IF e.op \in {"Const", "X", "Y", "Z"}
    THEN LET id == mk(next_id)
         IN  [id |-> id,
              nodes |-> Append(nodes, TopologyNode(id, EncoderTag(e), <<>>, EncoderParams(e))),
              next_id |-> next_id + 1]
    ELSE IF e.op \in BinaryOps \cup SmoothOps
    THEN LET ra == walk(e.a, nodes, next_id)
             rb == walk(e.b, ra.nodes, ra.next_id)
             id == mk(rb.next_id)
         IN  [id |-> id,
              nodes |-> Append(rb.nodes,
                          TopologyNode(id, EncoderTag(e), <<ra.id, rb.id>>, EncoderParams(e))),
              next_id |-> rb.next_id + 1]
    ELSE LET ra == walk(IF e.op \in UnaryOps THEN e.a ELSE e.expr, nodes, next_id)
             id == mk(ra.next_id)
         IN  [id |-> id,
              nodes |-> Append(ra.nodes,
                          TopologyNode(id, EncoderTag(e), <<ra.id>>, EncoderParams(e))),
              next_id |-> ra.next_id + 1]

\* TopologyProgram as far as the decoder reads it (format, invariants and
\* signature are never read by topology_to_expr)
expr_to_topology(e) ==
    LET r == walk(e, <<>>, 0)
    IN  [root |-> r.id, nodes |-> r.nodes]

Ok(e) == [tag |-> "Ok", expr |-> e]
Err(msg) == [tag |-> "Err", msg |-> msg]
Panic == [tag |-> "Panic"]
Running == [tag |-> "Running"]

NoTable == [id \in {} |-> X]

\* built.get(a).cloned().ok_or_else(|| format!("missing input node: {a}"))
get1(table, a) ==
    IF a \in DOMAIN table THEN Ok(table[a]) ELSE Err(<<"missing input node", a>>)

get2_DistinctInputs(table, ins, op) ==
    IF Len(ins) # 2 THEN Err(<<"expects 2 inputs", op>>)
    ELSE IF ins[1] = ins[2] THEN Err(<<"duplicate input node", ins[1]>>)
    ELSE IF get1(table, ins[1]).tag = "Err" THEN get1(table, ins[1])
    ELSE IF get1(table, ins[2]).tag = "Err" THEN get1(table, ins[2])
    ELSE [tag |-> "Ok", a |-> table[ins[1]], b |-> table[ins[2]]]

\* the closure get2: both inputs of a binary operator, or the first error
get2(table, ins, op) ==
    IF Len(ins) # 2 THEN Err(<<"expects 2 inputs", op>>)
    ELSE IF get1(table, ins[1]).tag = "Err" THEN get1(table, ins[1])
    ELSE IF get1(table, ins[2]).tag = "Err" THEN get1(table, ins[2])
    ELSE [tag |-> "Ok", a |-> table[ins[1]], b |-> table[ins[2]]]

\* the first key of keys (in order) that is missing or not numeric, 0 if none
FirstBadKey(params, keys) ==
    LET bad == {i \in 1..Len(keys) : ParamF64(params, keys[i]) = None}
    IN  IF bad = {} THEN 0 ELSE CHOOSE i \in bad : \A j \in bad : i <= j

\* .ok_or_else(|| "<op> missing numeric <key>")? over the keys in order
NeedParams(node, keys) ==
    LET i == FirstBadKey(node.params, keys)
    IN  IF i = 0 THEN [tag |-> "Ok"] ELSE Err(<<"missing numeric", node.op, keys[i]>>)

P(node, key) == ParamF64(node.params, key)[2]

Difference_Unnegated(a, b) == Max(a, b)

\* Expr::Max(Box::new(a), Box::new(Expr::Neg(Box::new(b))))
Difference(a, b) == Max(a, Neg(b))

\* the expression each binary arm of the decoder builds from its two inputs
BinaryExpr(op, a, b) ==
    CASE op = "add" -> Add(a, b)
      [] op = "sub" -> Sub(a, b)
      [] op = "mul" -> Mul(a, b)
      [] op = "div" -> Div(a, b)
      [] op \in {"min", "union"} -> Min(a, b)
      [] op \in {"max", "intersect"} -> Max(a, b)
      [] op = "difference" -> Difference(a, b)

\* the expression each of the arms neg, sin, cos, exp builds from its input
UnaryExpr(op, a) ==
    CASE op = "neg" -> Neg(a)
      [] op = "sin" -> Sin(a)
      [] op = "cos" -> Cos(a)
      [] op = "exp" -> Exp(a)

DecodeBinary(table, node) ==
    LET g == get2(table, node.inputs, node.op)
    IN  IF g.tag = "Err" THEN g ELSE Ok(BinaryExpr(node.op, g.a, g.b))

DecodeSmooth(table, node) ==
    LET g == get2(table, node.inputs, node.op)
        k == NeedParams(node, <<"k">>)
    IN  IF g.tag = "Err" THEN g
        ELSE IF k.tag = "Err" THEN k
        ELSE IF node.op = "smin" THEN Ok(SMin(g.a, g.b, P(node, "k")))
        ELSE Ok(SMax(g.a, g.b, P(node, "k")))

\* Expr::Neg(Box::new(get1(&built, &node.inputs[0])?)): indexing an empty
\* input list panics; inputs after the first are not looked at
DecodeUnary(table, node) ==
    IF Len(node.inputs) = 0 THEN Panic
    ELSE LET g == get1(table, node.inputs[1])
         IN  IF g.tag = "Err" THEN g ELSE Ok(UnaryExpr(node.op, g.expr))

DecodeTranslate(table, node) ==
    IF Len(node.inputs) # 1 THEN Err(<<"expects 1 input", "translate">>)
    ELSE LET g == get1(table, node.inputs[1])
             k == NeedParams(node, <<"dx", "dy", "dz">>)
         IN  IF g.tag = "Err" THEN g
             ELSE IF k.tag = "Err" THEN k
             ELSE Ok(Translate(g.expr, P(node, "dx"), P(node, "dy"), P(node, "dz")))

DecodeRotateZ(table, node) ==
    IF Len(node.inputs) # 1 THEN Err(<<"expects 1 input", "rotate_z">>)
    ELSE LET g == get1(table, node.inputs[1])
             k == NeedParams(node, <<"deg">>)
         IN  IF g.tag = "Err" THEN g
             ELSE IF k.tag = "Err" THEN k
             ELSE Ok(RotateZ(g.expr, P(node, "deg")))

UnsupportedOp_Lenient(node) == Ok(X)

\* _ => return Err(format!("unsupported topology op: {}", node.op))
UnsupportedOp(node) == Err(<<"unsupported topology op", node.op>>)

\* let expr = match node.op.as_str() { ... }: Ok(expr), Err(message) or a panic
DecodeNode(table, node) ==
    CASE node.op = "const" ->
            LET k == NeedParams(node, <<"value">>)
            IN  IF k.tag = "Err" THEN k ELSE Ok(Const(P(node, "value")))
      [] node.op = "x" -> Ok(X)
      [] node.op = "y" -> Ok(Y)
      [] node.op = "z" -> Ok(Z)
      [] node.op = "sphere" ->
            LET k == NeedParams(node, <<"r">>)
            IN  IF k.tag = "Err" THEN k ELSE Ok(sphere(P(node, "r")))
      [] node.op = "cylinder" ->
            LET k == NeedParams(node, <<"r", "h">>)
            IN  IF k.tag = "Err" THEN k ELSE Ok(cylinder(P(node, "r"), P(node, "h")))
      [] node.op = "box" ->
            LET k == NeedParams(node, <<"sx", "sy", "sz">>)
            IN  IF k.tag = "Err" THEN k
                ELSE Ok(box3(P(node, "sx"), P(node, "sy"), P(node, "sz")))
      [] node.op = "torus" ->
            LET k == NeedParams(node, <<"major_r", "minor_r">>)
            IN  IF k.tag = "Err" THEN k
                ELSE Ok(torus(P(node, "major_r"), P(node, "minor_r")))
      [] node.op = "add" -> DecodeBinary(table, node)
      [] node.op = "sub" -> DecodeBinary(table, node)
      [] node.op = "mul" -> DecodeBinary(table, node)
      [] node.op = "div" -> DecodeBinary(table, node)
      [] node.op = "min" -> DecodeBinary(table, node)
      [] node.op = "max" -> DecodeBinary(table, node)
      [] node.op = "smin" -> DecodeSmooth(table, node)
      [] node.op = "smax" -> DecodeSmooth(table, node)
      [] node.op = "neg" -> DecodeUnary(table, node)
      [] node.op = "sin" -> DecodeUnary(table, node)
      [] node.op = "cos" -> DecodeUnary(table, node)
      [] node.op = "exp" -> DecodeUnary(table, node)
      [] node.op = "translate" -> DecodeTranslate(table, node)
      [] node.op = "rotate_z" -> DecodeRotateZ(table, node)
      [] node.op = "union" -> DecodeBinary(table, node)
      [] node.op = "intersect" -> DecodeBinary(table, node)
      [] node.op = "difference" -> DecodeBinary(table, node)
      [] OTHER -> UnsupportedOp(node)

Insert_KeepFirst(table, id, e) ==
    IF id \in DOMAIN table THEN table
    ELSE [i \in DOMAIN table \cup {id} |-> IF i = id THEN e ELSE table[i]]

\* built.insert(node.id.clone(), expr): a later node replaces an earlier one
Insert(table, id, e) ==
    [i \in DOMAIN table \cup {id} |-> IF i = id THEN e ELSE table[i]]

RootLookup_FormatChecked(table, root) ==
    IF program.format # "morse.topo.v1" THEN Err(<<"unsupported format", program.format>>)
    ELSE IF root \in DOMAIN table THEN Ok(table[root])
    ELSE Err(<<"root node not found", root>>)

RootLookup_Default(table, root) ==
    IF root \in DOMAIN table THEN Ok(table[root]) ELSE Ok(X)

\* built.remove(&program.root).ok_or_else(|| format!("root node {} not found", ..))
RootLookup(table, root) ==
    IF root \in DOMAIN table THEN Ok(table[root]) ELSE Err(<<"root node not found", root>>)

-----------------------------------------------------------------------------
(* the inputs of the codec *)

\* nodes placed before the last node of a decoded program
MaxContext == 2
\* nodes of an expression handed to the encoder
MaxSize == 3

NoExpr == [op |-> "none"]

SupportedTags ==
    {"const", "x", "y", "z", "sphere", "cylinder", "box", "torus",
     "add", "sub", "mul", "div", "min", "max", "smin", "smax",
     "neg", "sin", "cos", "exp", "translate", "rotate_z",
     "union", "intersect", "difference"}

UnaryTags == {"neg", "sin", "cos", "exp", "translate", "rotate_z"}
BinaryTags ==
    {"add", "sub", "mul", "div", "min", "max", "smin", "smax",
     "union", "intersect", "difference"}

\* the parameter keys each arm of the decoder reads, in the order it reads them
RequiredKeys(op) ==
    CASE op = "const" -> <<"value">>
      [] op \in {"smin", "smax"} -> <<"k">>
      [] op = "translate" -> <<"dx", "dy", "dz">>
      [] op = "rotate_z" -> <<"deg">>
      [] op = "sphere" -> <<"r">>
      [] op = "cylinder" -> <<"r", "h">>
      [] op = "box" -> <<"sx", "sy", "sz">>
      [] op = "torus" -> <<"major_r", "minor_r">>
      [] OTHER -> <<>>

Range(f) == {f[i] : i \in DOMAIN f}

\* every required key present with the number v
FullParams(op, v) == [key \in Range(RequiredKeys(op)) |-> JNum(v)]

\* the parameter maps tried for op: complete, one key absent, one key not a number
ParamChoices(op) ==
    {FullParams(op, One)}
    \cup {[key \in Range(RequiredKeys(op)) \ {k} |-> JNum(One)] : k \in Range(RequiredKeys(op))}
    \cup {[key \in Range(RequiredKeys(op)) |-> IF key = k THEN JStr ELSE JNum(One)] :
            k \in Range(RequiredKeys(op))}

\* "n9" is an id no node of a program carries
GhostId == "n9"

InputChoices ==
    {<<>>, <<"n0">>, <<"n1">>, <<GhostId>>,
     <<"n0", "n0">>, <<"n0", "n1">>, <<"n0", GhostId>>, <<GhostId, "n0">>,
     <<"n0", "n0", "n0">>}

\* input lists of the right length for op, with every id defined by a first node n0
GoodInputs(op) ==
    IF op \in UnaryTags THEN <<"n0">> ELSE IF op \in BinaryTags THEN <<"n0", "n0">> ELSE <<>>

DefectiveParamNodes(id, op) ==
    UNION {{TopologyNode(id, op, GoodInputs(op), ps),
            TopologyNode(id, op, [i \in DOMAIN GoodInputs(op) |-> GhostId], ps)} :
              ps \in ParamChoices(op)}

\* the nodes tried in the last place of a program: every tag with every input
\* list and complete parameters, and every defective parameter map with good
\* inputs and with an undefined input
LastNodes(id) ==
    {TopologyNode(id, op, ins, FullParams(op, One)) :
        op \in SupportedTags \cup {"bogus"}, ins \in InputChoices}
    \cup UNION {DefectiveParamNodes(id, op) : op \in SupportedTags}

\* the nodes tried before the last one: a leaf, a second definition of n0, a
\* reference to n0 (a self reference in place 0), a reference to n1 (a forward
\* reference in place 0, a self reference in place 1), and one node of each
\* kind of defect
ContextNodes(id) ==
    {TopologyNode(id, "x", <<>>, NoParams),
     TopologyNode("n0", "y", <<>>, NoParams),
     TopologyNode(id, "neg", <<"n0">>, NoParams),
     TopologyNode(id, "neg", <<"n1">>, NoParams),
     TopologyNode(id, "bogus", <<>>, NoParams),
     TopologyNode(id, "neg", <<>>, NoParams),
     TopologyNode(id, "const", <<>>, NoParams),
     TopologyNode(id, "add", <<"n0">>, NoParams)}

RECURSIVE Contexts(_)
Contexts(n) ==
    IF n = 0 THEN {<<>>}
    ELSE {Append(s, nd) : s \in Contexts(n - 1), nd \in ContextNodes(mk(n - 1))}

RootChoices == {"n0", "n1", "n2", GhostId}

\* struct TopologySignature
TopologySignature(betti, euler, genus) ==
    [betti_hint |-> betti, euler_hint |-> euler, genus_hint |-> genus]

\* the metadata of TopologyProgram::default()
DefaultMeta ==
    [format |-> "morse.topo.v1",
     invariants |-> <<"field_is_truth", "no_mesh_in_critical_path", "single_expression_graph">>,
     signature |-> TopologySignature(<<1, 0, 0>>, 1, 0)]

\* struct TopologyProgram with all five fields
TopologyProgram(meta, root, nodes) ==
    [format |-> meta.format, root |-> root, nodes |-> nodes,
     invariants |-> meta.invariants, signature |-> meta.signature]

\* the metadata tried: another format string, no invariants, the tube signature
MetaChoices ==
    {[format |-> f, invariants |-> i, signature |-> g] :
        f \in {DefaultMeta.format, "morse.topo.v2"},
        i \in {DefaultMeta.invariants, <<>>},
        g \in {DefaultMeta.signature, TopologySignature(<<1, 1, 0>>, 0, 1)}}

\* the program of topology_primitive_ops_compile (tests.rs 105-145): a sphere
\* less a cylinder moved along x
SceneS7 ==
    [root |-> "n4",
     nodes |-> <<TopologyNode("n1", "sphere", <<>>, "r" :> JNum(One)),
                 TopologyNode("n2", "cylinder", <<>>,
                              ("r" :> JNum(<<1, 4>>)) @@ ("h" :> JNum(Int2Num(2)))),
                 TopologyNode("n3", "translate", <<"n2">>,
                              ("dx" :> JNum(<<3, 4>>)) @@ ("dy" :> JNum(Zero))
                                @@ ("dz" :> JNum(Zero))),
                 TopologyNode("n4", "difference", <<"n1", "n3">>, NoParams)>>]

\* n0 is defined twice, used between the two definitions and used after the
\* second
ShadowNodes ==
    <<TopologyNode("n0", "x", <<>>, NoParams),
      TopologyNode("n1", "neg", <<"n0">>, NoParams),
      TopologyNode("n0", "y", <<>>, NoParams),
      TopologyNode("n2", "add", <<"n0", "n1">>, NoParams)>>

\* the node lists decoded under two sets of metadata
MetaNodeLists ==
    {<<>>} \cup
    UNION {{Append(c, nd) : c \in Contexts(n), nd \in LastNodes(mk(n))} : n \in 0..1}

\* literals of the expressions handed to the encoder
Literals == {One, Half, PInf, NInf}

EncLeaves == {X, Y, Z} \cup {Const(v) : v \in Literals}

RECURSIVE EncExprs(_)
\* the expressions of exactly n nodes over the encoder's operators
EncExprs(n) ==
    IF n = 1 THEN EncLeaves
    ELSE {Neg(a) : a \in EncExprs(n - 1)}
         \cup {Sin(a) : a \in EncExprs(n - 1)}
         \cup {Cos(a) : a \in EncExprs(n - 1)}
         \cup {Exp(a) : a \in EncExprs(n - 1)}
         \cup {Translate(a, One, Zero, d) : a \in EncExprs(n - 1), d \in {Half, PInf}}
         \cup {RotateZ(a, d) : a \in EncExprs(n - 1), d \in {One, NInf}}
         \cup UNION {
                {Add(a, b) : a \in EncExprs(i), b \in EncExprs(n - 1 - i)}
                \cup {Sub(a, b) : a \in EncExprs(i), b \in EncExprs(n - 1 - i)}
                \cup {Mul(a, b) : a \in EncExprs(i), b \in EncExprs(n - 1 - i)}
                \cup {Div(a, b) : a \in EncExprs(i), b \in EncExprs(n - 1 - i)}
                \cup {Min(a, b) : a \in EncExprs(i), b \in EncExprs(n - 1 - i)}
                \cup {Max(a, b) : a \in EncExprs(i), b \in EncExprs(n - 1 - i)}
                \cup {SMin(a, b, k) : a \in EncExprs(i), b \in EncExprs(n - 1 - i),
                                      k \in {One, PInf}}
                \cup {SMax(a, b, k) : a \in EncExprs(i), b \in EncExprs(n - 1 - i),
                                      k \in {One, PInf}}
                : i \in 1..(n - 2)}

\* the expressions route_request encodes for its scenes (main.rs 166, 174) and
\* a deeper tree whose two sides differ in shape
SceneSources ==
    {tube(One, <<3, 5>>, <<6, 5>>), sphere(<<3, 4>>),
     RotateZ(Translate(SMin(Mul(X, Neg(Y)), Exp(Z), Half), One, Zero, Half), Int2Num(45))}

Sources == UNION {EncExprs(n) : n \in 1..MaxSize} \cup SceneSources

-----------------------------------------------------------------------------
(* the inputs of the interval interpreter and of the solver *)

\* an axis interval [l, h] with integer ends in lo..hi and a coordinate at inside it
AxisChoices(lo, hi) ==
    {[iv |-> Interval(Int2Num(l), Int2Num(h)), at |-> Int2Num(c)] :
        <<l, h, c>> \in {t \in (lo..hi) \X (lo..hi) \X (lo..hi) : t[1] <= t[3] /\ t[3] <= t[2]}}

XChoices == AxisChoices(-1, 1)
YChoices == AxisChoices(0, 1)
ZChoices == AxisChoices(1, 2)

IvLiterals == {Zero, One, Int2Num(-2), Half, PInf}
IvLeaves == {X, Y, Z} \cup {Const(v) : v \in IvLiterals}

\* the expressions of exactly n nodes handed to eval and eval_interval
RECURSIVE IvExprs(_)
IvExprs(n) ==
    IF n = 1 THEN IvLeaves
    ELSE {Neg(a) : a \in IvExprs(n - 1)}
         \cup {Exp(a) : a \in IvExprs(n - 1)}
         \cup {Translate(a, One, Zero, Zero) : a \in IvExprs(n - 1)}
         \cup UNION {
                UNION {{Add(a, b), Sub(a, b), Mul(a, b), Div(a, b), Min(a, b), Max(a, b),
                        SMin(a, b, One), SMax(a, b, One)} :
                          <<a, b>> \in IvExprs(i) \X IvExprs(n - 1 - i)}
                : i \in 1..(n - 2)}

Fields == UNION {IvExprs(n) : n \in 1..MaxSize}

Sq(a) == Mul(a, a)

\* x^2 + y^2 + z^2
SumOfSquares == Add(Add(Sq(X), Sq(Y)), Sq(Z))

\* max((x+1)^2, (x-1)^2) + y^2 + z^2: Newton's step maps x = 1 to -1 and back
TwoCycleField ==
    Add(Add(Max(Sq(Add(X, Const(One))), Sq(Sub(X, Const(One)))), Sq(Y)), Sq(Z))

\* 1e-8 / x + x^2 + y^2 + z^2: the gradient at x = 0 is infinite
PoleField == Add(Div(Const(<<1, 100000000>>), X), SumOfSquares)

S1Seed == Point(<<1, 5>>, <<-1, 10>>, <<1, 10>>)
Origin == Point(Zero, Zero, Zero)

SmoothFields ==
    {sphere(One), SumOfSquares, Neg(SumOfSquares),
     Sub(Sq(X), Add(Sq(Y), Sq(Z))),
     Add(Mul(X, Y), Sq(Z)),
     Translate(sphere(One), One, Zero, Half),
     Min(sphere(One), Translate(sphere(One), Int2Num(3), Zero, Zero)),
     Const(One), X, Add(X, Sq(Y))}

SmoothSeeds ==
    {S1Seed, Origin, Point(One, Zero, Zero), Point(Int2Num(2), Int2Num(-1), Half),
     Point(<<1, 1000>>, Zero, Zero)}

\* expressions without a variable, and fields whose gradient vanishes where
\* x = 0 while the matrix of second derivatives has no pivot there
FlatFields ==
    {Const(c) : c \in {Zero, One, Int2Num(-2), <<1, 3>>, PInf, NInf, NaN}}
    \cup {Neg(Const(One)), Add(Const(Half), Const(One)), Mul(Const(Zero), X),
          Sq(X), Neg(Sq(X))}

FlatSeeds ==
    {Origin, S1Seed, Point(Zero, Int2Num(2), Int2Num(-1)), Point(Zero, Half, Zero),
     Point(Int2Num(-3), Zero, Int2Num(7))}

\* the calls refine_critical(expr, x, y, z) tried
SolverCases ==
    {[expr |-> e, seed |-> s] : e \in SmoothFields, s \in SmoothSeeds}
    \cup {[expr |-> e, seed |-> s] : e \in FlatFields, s \in FlatSeeds}
    \cup {[expr |-> TwoCycleField, seed |-> s] : s \in {t \in SmoothSeeds : t.x # Zero}}
    \cup {[expr |-> PoleField, seed |-> s] : s \in {Origin, Point(Zero, One, Half)}}

\* nodes of a polynomial expression handed to eval and eval_ad
MaxPoly == 3

PolyLeaves == {X, Y, Z, Const(One), Const(Int2Num(-2)), Const(PInf)}

\* the expressions of exactly n nodes over Const, X, Y, Z, Add, Sub, Mul, Neg
RECURSIVE PolyExprs(_)
PolyExprs(n) ==
    IF n = 1 THEN PolyLeaves
    ELSE {Neg(a) : a \in PolyExprs(n - 1)}
         \cup UNION {
                UNION {{Add(a, b), Sub(a, b), Mul(a, b)} :
                          <<a, b>> \in PolyExprs(i) \X PolyExprs(n - 1 - i)}
                : i \in 1..(n - 2)}

\* the primitive constructors with positive parameters
Primitives ==
    {[kind |-> "sphere", e |-> sphere(r), r |-> r] : r \in {One, Half}}
    \cup {[kind |-> "cylinder", e |-> cylinder(r, h), r |-> r, h |-> h] :
            r \in {One, Half}, h \in {One, Int2Num(2)}}
    \cup {[kind |-> "box3", e |-> box3(sx, One, sz), sx |-> sx, sy |-> One, sz |-> sz] :
            sx \in {One, Int2Num(2)}, sz \in {One, Half}}
    \cup {[kind |-> "torus", e |-> torus(One, r), major_r |-> One, minor_r |-> r] :
            r \in {Half, <<1, 4>>}}
    \cup {[kind |-> "tube", e |-> tube(o, Half, h), outer_r |-> o, inner_r |-> Half,
            half_h |-> h] : o \in {One, Int2Num(2)}, h \in {One, Half}}

TranslateBases ==
    {X, Z, Mul(X, Y), sphere(One), Min(X, Z), Translate(Y, Zero, One, Zero),
     SMin(X, Y, One), Sin(X), Exp(Z), Div(Const(One), X)}

TranslateFields ==
    {Translate(e, d[1], d[2], d[3]) :
        e \in TranslateBases,
        d \in {<<One, Zero, Zero>>, <<Half, Int2Num(-1), Int2Num(2)>>, <<PInf, Zero, Zero>>}}

\* one cut of ring_cutout_demo_hallbach: a box rotated, moved out along x and
\* rotated about z again (expr.rs 263-277), taken out of a body
RingCut ==
    Max(cylinder(One, One),
        Neg(RotateZ(Translate(RotateZ(box3(Half, Half, One), Zero), One, Zero, Half),
                    Int2Num(45))))

\* expressions with a RotateZ node: as decode builds for a rotate_z node, under
\* another operator, and as ring_cutout_demo_hallbach builds
RotateFields == {RotateZ(X, Int2Num(45)), Neg(RotateZ(sphere(One), One)), RingCut}

\* children of a Min or Max node: 0.0 / 0.0 is NaN, y / y is NaN at y = 0
SelectChildren ==
    {X, Neg(X), Mul(Y, Z), Const(Half), Const(PInf), Div(Y, Y), Div(Const(Zero), Const(Zero))}

SelectFields ==
    {Min(a, b) : a \in SelectChildren, b \in SelectChildren}
    \cup {Max(a, b) : a \in SelectChildren, b \in SelectChildren}

\* the expressions handed to eval, eval_ad and eval_interval
InterpFields ==
    UNION {PolyExprs(n) : n \in 1..MaxPoly}
    \cup SelectFields
    \cup {SumOfSquares}
    \cup {q.e : q \in Primitives}
    \cup TranslateFields
    \cup RotateFields

\* the points they are evaluated at
InterpPoints ==
    {Point(x, y, z) : x \in {Int2Num(-1), Zero, Half, <<3, 2>>, Int2Num(2)},
                      y \in {<<-1, 2>>, Zero, One},
                      z \in {Int2Num(-1), Zero, <<1, 4>>, One}}
    \cup {Point(Int2Num(2), Int2Num(-3), Int2Num(4))}

-----------------------------------------------------------------------------
(* glsl.rs: the shader source of an expression *)

\* the digits of r / d after the point, k of them, rounded to nearest (a tie to
\* the even digit): <<digits, carry into the place before them>>
RECURSIVE FracDigits(_, _, _)
FracDigits(r, d, k) ==
    IF k = 0
    THEN <<<<>>, IF 2 * r > d THEN 1 ELSE IF 2 * r = d THEN 2 ELSE 0>>
    ELSE LET dg == (r * 10) \div d
             rest == FracDigits((r * 10) % d, d, k - 1)
             cin == IF rest[2] = 2 THEN dg % 2 ELSE rest[2]
         IN  <<<<(dg + cin) % 10>> \o rest[1], (dg + cin) \div 10>>

RECURSIVE DigitString(_)
DigitString(ds) == IF ds = <<>> THEN "" ELSE ToString(Head(ds)) \o DigitString(Tail(ds))

\* format!("{c:.12}") of an f64
Fixed12(c) ==
    IF IsNaN(c) THEN "NaN"
    ELSE IF c = PInf THEN "inf"
    ELSE IF c = NInf THEN "-inf"
    ELSE LET a == Abs(c[1])
             fr == FracDigits(a % c[2], c[2], 12)
         IN  (IF c[1] < 0 THEN "-" ELSE "") \o ToString(a \div c[2] + fr[2])
                 \o "." \o DigitString(fr[1])

\* let a = (-deg).to_radians(); a.cos(), a.sin() as {:.12} prints them, for the
\* angles the requests use: 45, 90 and 180 degrees
CosString(deg) ==
    IF deg = Int2Num(45) THEN "0.707106781187"
    ELSE IF deg = Int2Num(90) THEN "0.000000000000"
    ELSE "-1.000000000000"

SinString(deg) ==
    IF deg = Int2Num(45) THEN "-0.707106781187"
    ELSE IF deg = Int2Num(90) THEN "-1.000000000000"
    ELSE "-0.000000000000"

\* the clamp(...) factor the SMin and SMax arms write three times
SmoothClamp(as_, bs_, k, sign) ==
    "clamp(0.5 " \o sign \o " 0.5*((" \o bs_ \o ")-(" \o as_ \o "))/" \o Fixed12(k)
        \o ", 0.0, 1.0)"

RECURSIVE emit_with_coords(_, _, _, _)
emit_with_coords(e, x, y, z) ==
    LET sub(c) == emit_with_coords(c, x, y, z)
    IN  CASE e.op = "Const" -> Fixed12(e.c)
          [] e.op = "X" -> x
          [] e.op = "Y" -> y
          [] e.op = "Z" -> z
          [] e.op = "Add" -> "(" \o sub(e.a) \o " + " \o sub(e.b) \o ")"
          [] e.op = "Sub" -> "(" \o sub(e.a) \o " - " \o sub(e.b) \o ")"
          [] e.op = "Mul" -> "(" \o sub(e.a) \o " * " \o sub(e.b) \o ")"
          [] e.op = "Div" -> "(" \o sub(e.a) \o " / " \o sub(e.b) \o ")"
          [] e.op = "Neg" -> "(-" \o sub(e.a) \o ")"
          [] e.op = "Sin" -> "sin(" \o sub(e.a) \o ")"
          [] e.op = "Cos" -> "cos(" \o sub(e.a) \o ")"
          [] e.op = "Exp" -> "exp(" \o sub(e.a) \o ")"
          [] e.op = "Min" -> "min(" \o sub(e.a) \o ", " \o sub(e.b) \o ")"
          [] e.op = "Max" -> "max(" \o sub(e.a) \o ", " \o sub(e.b) \o ")"
          [] e.op = "SMin" ->
                LET h == SmoothClamp(sub(e.a), sub(e.b), e.k, "+")
                IN  "(mix(" \o sub(e.b) \o ", " \o sub(e.a) \o ", " \o h \o ") - "
                        \o Fixed12(e.k) \o "*" \o h \o "*(1.0-" \o h \o "))"
          [] e.op = "SMax" ->
                LET h == SmoothClamp(sub(e.a), sub(e.b), e.k, "-")
                IN  "(mix(" \o sub(e.b) \o ", " \o sub(e.a) \o ", " \o h \o ") + "
                        \o Fixed12(e.k) \o "*" \o h \o "*(1.0-" \o h \o "))"
          [] e.op = "Translate" ->
                emit_with_coords(e.expr,
                                 "(" \o x \o " - " \o Fixed12(e.dx) \o ")",
                                 "(" \o y \o " - " \o Fixed12(e.dy) \o ")",
                                 "(" \o z \o " - " \o Fixed12(e.dz) \o ")")
          [] e.op = "RotateZ" ->
                emit_with_coords(e.expr,
                                 "(" \o CosString(e.deg) \o "*" \o x \o " - "
                                     \o SinString(e.deg) \o "*" \o y \o ")",
                                 "(" \o SinString(e.deg) \o "*" \o x \o " + "
                                     \o CosString(e.deg) \o "*" \o y \o ")",
                                 z)

\* format!("float sdf(vec3 p) {{\n  return {};\n}}", ..)
to_glsl(e) ==
    "float sdf(vec3 p) {\n  return " \o emit_with_coords(e, "p.x", "p.y", "p.z") \o ";\n}"

-----------------------------------------------------------------------------
(* server main.rs: requests, responses and route_request's pure arms *)

\* enum Request, tagged by "cmd"
EvalRequest(e, p) == [cmd |-> "eval", expr |-> e, x |-> p.x, y |-> p.y, z |-> p.z]
GradRequest(e, p) == [cmd |-> "grad", expr |-> e, x |-> p.x, y |-> p.y, z |-> p.z]
CriticalRequest(e, p) == [cmd |-> "critical", expr |-> e, x |-> p.x, y |-> p.y, z |-> p.z]
GlslRequest(e) == [cmd |-> "glsl", expr |-> e]
TopologySceneRequest(scene, outer_r, inner_r, half_h) ==
    [cmd |-> "topology_scene", scene |-> scene, outer_r |-> outer_r, inner_r |-> inner_r,
     half_h |-> half_h]
GlslTopologyRequest(topology) == [cmd |-> "glsl_topology", topology |-> topology]
CriticalTopologyRequest(topology, p) ==
    [cmd |-> "critical_topology", topology |-> topology, x |-> p.x, y |-> p.y, z |-> p.z]

\* a text that serde_json::from_str::<Request> does not accept
Malformed == [cmd |-> "malformed"]

\* enum Response, tagged by "ok"
EvalResponse(v) == [ok |-> "eval", value |-> v]
GradResponse(v, g) == [ok |-> "grad", value |-> v, grad |-> g]
CriticalResponse(found, x, y, z, f, index) ==
    [ok |-> "critical", found |-> found, x |-> x, y |-> y, z |-> z, f |-> f, index |-> index]
GlslResponse(code) == [ok |-> "glsl", code |-> code]
TopologyResponse(topology) == [ok |-> "topology", topology |-> topology]
ErrorResponse(message) == [ok |-> "error", message |-> message]

\* Option::unwrap_or
unwrap_or(opt, default) == IF opt = None THEN default ELSE opt[2]

\* the TopologyScene arm: the program of the tube, with the tube's signature,
\* or of sphere(0.75)
topology_scene(scene, outer_r, inner_r, half_h) ==
    IF scene = "tube"
    THEN LET outer == NMax(unwrap_or(outer_r, One), <<1, 10>>)
             inner == NClamp(unwrap_or(inner_r, <<3, 5>>), <<1, 100>>,
                             NSub(outer, <<1, 100>>))
             h == NMax(unwrap_or(half_h, <<6, 5>>), <<1, 10>>)
             t == expr_to_topology(tube(outer, inner, h))
         IN  TopologyProgram([DefaultMeta EXCEPT
                                 !.signature = TopologySignature(<<1, 1, 0>>, 0, 1)],
                             t.root, t.nodes)
    ELSE LET t == expr_to_topology(sphere(<<3, 4>>))
         IN  TopologyProgram(DefaultMeta, t.root, t.nodes)

\* the arms of route_request that call neither topology_to_expr nor
\* refine_critical
DirectCommands == {"eval", "grad", "glsl", "topology_scene"}

route_direct(req) ==
    CASE req.cmd = "eval" -> EvalResponse(eval(req.expr, Point(req.x, req.y, req.z)))
      [] req.cmd = "grad" ->
            LET ad == eval_ad(req.expr, Point(req.x, req.y, req.z))
            IN  GradResponse(ad.v, ad.g)
      [] req.cmd = "glsl" -> GlslResponse(to_glsl(req.expr))
      [] req.cmd = "topology_scene" ->
            TopologyResponse(topology_scene(req.scene, req.outer_r, req.inner_r, req.half_h))

critical_response_ErrorOnNone(r) ==
    IF r = None
    THEN ErrorResponse(<<"critical point not found">>)
    ELSE CriticalResponse(TRUE, r[2].x, r[2].y, r[2].z, r[2].f, r[2].index)

\* match refine_critical(expr, x, y, z) { Some(c) => .., None => .. }, given
\* what refine_critical returned
critical_response(r) ==
    IF r = None
    THEN CriticalResponse(FALSE, Zero, Zero, Zero, Zero, 0)
    ELSE CriticalResponse(TRUE, r[2].x, r[2].y, r[2].z, r[2].f, r[2].index)

\* what socket.next().await yields: Some(Ok(Message::Text(..))), Some(Ok(..)) of
\* another kind of message, or Some(Err(..))
TextFrame(body) == [kind |-> "text", body |-> body]
OtherFrame == [kind |-> "other"]
ErrorFrame == [kind |-> "error"]

\* frames one connection delivers before its stream ends
MaxFrames == 2

\* a program whose neg node lists no input (get1 indexes inputs[0])
NegWithoutInput ==
    TopologyProgram(DefaultMeta, "n0", <<TopologyNode("n0", "neg", <<>>, NoParams)>>)

\* a program whose node has a tag topology_to_expr does not know
UnknownTag ==
    TopologyProgram(DefaultMeta, "n0", <<TopologyNode("n0", "blend", <<>>, NoParams)>>)

EncodedProgram(e) ==
    LET t == expr_to_topology(e) IN TopologyProgram(DefaultMeta, t.root, t.nodes)

\* the requests the clients send
Requests ==
    {EvalRequest(sphere(<<3, 4>>), Point(One, Zero, Half)),
     GradRequest(sphere(<<3, 4>>), Point(One, Zero, Half)),
     GlslRequest(Translate(SMin(Sub(X, Const(<<2, 3>>)), RotateZ(Y, Int2Num(45)), Half),
                           Half, Zero, NInf)),
     TopologySceneRequest("tube", None, None, None),
     TopologySceneRequest("tube", Some(<<1, 20>>), Some(Int2Num(5)), Some(Int2Num(2))),
     TopologySceneRequest("sphere", None, None, None),
     CriticalRequest(sphere(One), S1Seed),
     CriticalRequest(TwoCycleField, Point(One, Zero, Zero)),
     CriticalRequest(Add(X, Sq(Y)), Origin),
     GlslTopologyRequest(TopologyProgram(DefaultMeta, SceneS7.root, SceneS7.nodes)),
     GlslTopologyRequest(UnknownTag),
     GlslTopologyRequest(NegWithoutInput),
     CriticalTopologyRequest(EncodedProgram(SumOfSquares), S1Seed),
     CriticalTopologyRequest(EncodedProgram(Add(X, Sq(Y))), Origin),
     CriticalTopologyRequest(UnknownTag, Origin),
     CriticalTopologyRequest(NegWithoutInput, Origin)}

Frames == {TextFrame(b) : b \in Requests \cup {Malformed}} \cup {OtherFrame, ErrorFrame}

RECURSIVE Streams(_)
Streams(n) ==
    IF n = 0 THEN {<<>>} ELSE {<<f>> \o s : f \in Frames, s \in Streams(n - 1)}

-----------------------------------------------------------------------------
(* The state machines *)

Pending == <<"Pending">>

IdleCodec ==
    /\ source = NoExpr
    /\ program = [root |-> "", nodes |-> <<>>]
    /\ built = NoTable
    /\ pos = 0
    /\ decoded = [tag |-> "Idle"]
    /\ exprs = <<>>
    /\ previous = None

IdleInterval ==
    /\ field = NoExpr
    /\ box = Point(Interval(Zero, Zero), Interval(Zero, Zero), Interval(Zero, Zero))
    /\ point = Origin
    /\ enclosure = None
    /\ value = None
    /\ dual = None

IdleSolver ==
    /\ expr = NoExpr
    /\ seed = Origin
    /\ here = Origin
    /\ iter = 0
    /\ pc = "idle"
    /\ result = Pending
    /\ tests = 0
    /\ updates = 0

IdleServer ==
    /\ inbox = <<>>
    /\ request = None
    /\ response = None
    /\ outbox = <<>>
    /\ wspc = "idle"
    /\ texts = 0

codecVars == <<source, program, built, pos, decoded, exprs, previous>>
intervalVars == <<field, box, point, enclosure, value, dual>>
solverVars == <<expr, seed, here, iter, pc, result, tests, updates>>
serverVars == <<inbox, request, response, outbox, wspc, texts>>
vars == <<codecVars, intervalVars, solverVars, serverVars>>

(* topology_to_expr: one step per node of the list *)

DecodeStart(p, src) ==
    /\ source = src
    /\ program = p
    /\ built = NoTable
    /\ pos = 0
    /\ decoded = Running
    /\ exprs = <<>>
    /\ previous = None
    /\ IdleInterval
    /\ IdleSolver
    /\ IdleServer

\* a caller hands topology_to_expr an arbitrary program
InitCodec ==
    \/ \E r \in RootChoices : DecodeStart([root |-> r, nodes |-> <<>>], NoExpr)
    \/ \E c \in 0..MaxContext : \E s \in Contexts(c) : \E nd \in LastNodes(mk(c)) :
          \E r \in RootChoices : DecodeStart([root |-> r, nodes |-> Append(s, nd)], NoExpr)
    \/ DecodeStart(SceneS7, NoExpr)
    \/ \E r \in RootChoices : DecodeStart([root |-> r, nodes |-> ShadowNodes], NoExpr)

\* a caller hands topology_to_expr the encoder's output
InitRoundTrip == \E e \in Sources : DecodeStart(expr_to_topology(e), e)

\* for node in &program.nodes { let expr = match ...; built.insert(id, expr) }
DecodeOne ==
    /\ decoded = Running
    /\ pos < Len(program.nodes)
    /\ LET node == program.nodes[pos + 1]
           r == DecodeNode(built, node)
       IN  IF r.tag = "Ok"
           THEN /\ built' = Insert(built, node.id, r.expr)
                /\ pos' = pos + 1
                /\ exprs' = Append(exprs, r.expr)
                /\ decoded' = decoded
           ELSE /\ decoded' = r
                /\ UNCHANGED <<built, pos, exprs>>
    /\ UNCHANGED <<source, program, previous, intervalVars, solverVars, serverVars>>

\* built.remove(&program.root).ok_or_else(...)
Finish ==
    /\ decoded = Running
    /\ pos = Len(program.nodes)
    /\ decoded' = RootLookup(built, program.root)
    /\ UNCHANGED <<source, program, built, pos, exprs, previous, intervalVars, solverVars, serverVars>>

NextCodec == DecodeOne \/ Finish

SpecCodec == InitCodec /\ [][NextCodec]_vars
SpecRoundTrip == InitRoundTrip /\ [][NextCodec]_vars

(* topology_to_expr called again on the same nodes and root under other metadata *)

\* a caller hands topology_to_expr a program with the default metadata
InitMetadata ==
    \E nodes \in MetaNodeLists : \E r \in {"n0", "n1", GhostId} :
        DecodeStart(TopologyProgram(DefaultMeta, r, nodes), NoExpr)

\* after the call returned, the caller changes the format string, the
\* invariants list and the signature (as route_request does for the tube
\* scene, main.rs 167-171) and calls topology_to_expr again
Resubmit ==
    /\ decoded.tag \in {"Ok", "Err", "Panic"}
    /\ previous = None
    /\ previous' = Some(decoded)
    /\ \E m \in MetaChoices \ {DefaultMeta} :
          program' = TopologyProgram(m, program.root, program.nodes)
    /\ built' = NoTable
    /\ pos' = 0
    /\ decoded' = Running
    /\ exprs' = <<>>
    /\ UNCHANGED <<source, intervalVars, solverVars, serverVars>>

NextMetadata == DecodeOne \/ Finish \/ Resubmit

SpecMetadata == InitMetadata /\ [][NextMetadata]_vars

(* eval_interval over a box and eval at a point of the box *)

InitInterval ==
    /\ field \in Fields \cup TranslateFields
    /\ \E cx \in XChoices : \E cy \in YChoices : \E cz \in ZChoices :
          /\ box = Point(cx.iv, cy.iv, cz.iv)
          /\ point = Point(cx.at, cy.at, cz.at)
    /\ enclosure = None
    /\ value = None
    /\ dual = None
    /\ IdleCodec
    /\ IdleSolver
    /\ IdleServer

EvalInterval ==
    /\ field # NoExpr
    /\ enclosure = None
    /\ enclosure' = IF HasArms(field) THEN Some(eval_interval(field, box.x, box.y, box.z))
                    ELSE Unhandled
    /\ UNCHANGED <<field, box, point, value, dual, codecVars, solverVars, serverVars>>

EvalPoint ==
    /\ field # NoExpr
    /\ value = None
    /\ value' = IF HasArms(field) THEN Some(eval(field, point)) ELSE Unhandled
    /\ UNCHANGED <<field, box, point, enclosure, dual, codecVars, solverVars, serverVars>>

EvalAd ==
    /\ field # NoExpr
    /\ dual = None
    /\ dual' = IF HasArms(field) THEN Some(eval_ad(field, point)) ELSE Unhandled
    /\ UNCHANGED <<field, box, point, enclosure, value, codecVars, solverVars, serverVars>>

NextInterval == EvalInterval \/ EvalPoint

SpecInterval == InitInterval /\ [][NextInterval]_vars

(* eval, eval_ad and eval_interval on one expression at one point *)

InitInterp ==
    /\ field \in InterpFields
    /\ point \in InterpPoints
    /\ box = Point(Interval(point.x, point.x), Interval(point.y, point.y),
                   Interval(point.z, point.z))
    /\ enclosure = None
    /\ value = None
    /\ dual = None
    /\ IdleCodec
    /\ IdleSolver
    /\ IdleServer

NextInterp == EvalPoint \/ EvalAd \/ EvalInterval

SpecInterp == InitInterp /\ [][NextInterp]_vars

(* refine_critical: the convergence test and the Newton update of one round *)

InitSolver ==
    /\ \E c \in SolverCases :
          /\ expr = c.expr
          /\ seed = c.seed
          /\ here = c.seed
    /\ iter = 0
    /\ pc = "test"
    /\ result = Pending
    /\ tests = 0
    /\ updates = 0
    /\ IdleCodec
    /\ IdleInterval
    /\ IdleServer

\* let g = gradient(..); if gn < 1e-8 { return Some(CriticalPoint {..}) }
Test ==
    /\ pc = "test"
    /\ LoopContinues(iter)
    /\ tests' = tests + 1
    /\ \E g \in {gradient(expr, here)} :
          IF Converged(g)
          THEN /\ \E h \in {hessian(expr, here, HessianEps)} :
                     \E index \in morse_index(h) :
                        result' = Some(CriticalPoint(here, eval_ad(expr, here).v, index))
               /\ pc' = "done"
          ELSE /\ pc' = "solve"
               /\ result' = result
    /\ UNCHANGED <<expr, seed, here, iter, updates, codecVars, intervalVars, serverVars>>

\* let delta = solve3(h, [-g[0], -g[1], -g[2]])?; x += delta[0]; ..;
\* if !x.is_finite() || .. { return None }
Newton ==
    /\ pc = "solve"
    /\ \E g \in {gradient(expr, here)} :
       \E h \in {hessian(expr, here, HessianEps)} :
       \E delta \in {solve3(h, VNeg(g))} :
          IF delta = None
          THEN /\ pc' = "done"
               /\ result' = None
               /\ UNCHANGED <<here, iter, updates>>
          ELSE \E next \in {Point(NAdd(here.x, delta[2][1]), NAdd(here.y, delta[2][2]),
                                  NAdd(here.z, delta[2][3]))} :
                  /\ here' = next
                  /\ updates' = updates + 1
                  /\ IF IsFinitePoint(next)
                     THEN pc' = "test" /\ iter' = iter + 1 /\ result' = result
                     ELSE pc' = "done" /\ iter' = iter /\ result' = None
    /\ UNCHANGED <<expr, seed, tests, codecVars, intervalVars, serverVars>>

\* the loop ran out of rounds: None
Exhausted ==
    /\ pc = "test"
    /\ ~LoopContinues(iter)
    /\ pc' = "done"
    /\ result' = None
    /\ UNCHANGED <<expr, seed, here, iter, tests, updates, codecVars, intervalVars, serverVars>>

NextSolver == Test \/ Newton \/ Exhausted

SpecSolver == InitSolver /\ [][NextSolver]_vars

(* handle_ws: one websocket connection; route_request runs topology_to_expr and
   refine_critical as the steps above *)

InitServer ==
    /\ inbox \in Streams(MaxFrames)
    /\ request = None
    /\ response = None
    /\ outbox = <<>>
    /\ wspc = "recv"
    /\ texts = 0
    /\ IdleCodec
    /\ IdleInterval
    /\ IdleSolver

\* socket.next().await yields None: the while let ends
StreamEnd ==
    /\ wspc = "recv"
    /\ inbox = <<>>
    /\ wspc' = "closed"
    /\ UNCHANGED <<inbox, request, response, outbox, texts, codecVars, intervalVars, solverVars>>

\* socket.next().await yields Some(Err(..)): the while let ends
StreamError ==
    /\ wspc = "recv"
    /\ inbox # <<>>
    /\ Head(inbox).kind = "error"
    /\ inbox' = Tail(inbox)
    /\ wspc' = "closed"
    /\ UNCHANGED <<request, response, outbox, texts, codecVars, intervalVars, solverVars>>

\* a message that is not Message::Text: the body of the loop does nothing
SkipFrame ==
    /\ wspc = "recv"
    /\ inbox # <<>>
    /\ Head(inbox).kind = "other"
    /\ inbox' = Tail(inbox)
    /\ UNCHANGED <<request, response, outbox, wspc, texts, codecVars, intervalVars, solverVars>>

\* Err(err) => Response::Error { message: format!("bad request: {err}") }
BadRequest ==
    /\ wspc = "recv"
    /\ inbox # <<>>
    /\ Head(inbox).kind = "text"
    /\ Head(inbox).body = Malformed
    /\ inbox' = Tail(inbox)
    /\ texts' = texts + 1
    /\ request' = None
    /\ response' = Some(ErrorResponse(<<"bad request">>))
    /\ wspc' = "send"
    /\ UNCHANGED <<outbox, codecVars, intervalVars, solverVars>>

\* Ok(req) => route_request(req), the Eval, Grad, Glsl and TopologyScene arms
RouteDirect ==
    /\ wspc = "recv"
    /\ inbox # <<>>
    /\ Head(inbox).kind = "text"
    /\ Head(inbox).body.cmd \in DirectCommands
    /\ inbox' = Tail(inbox)
    /\ texts' = texts + 1
    /\ request' = Some(Head(inbox).body)
    /\ response' = Some(route_direct(Head(inbox).body))
    /\ wspc' = "send"
    /\ UNCHANGED <<outbox, codecVars, intervalVars, solverVars>>

\* refine_critical(expr, x, y, z) is entered
StartSolver(e, p) ==
    /\ expr' = e
    /\ seed' = p
    /\ here' = p
    /\ iter' = 0
    /\ pc' = "test"
    /\ result' = Pending
    /\ tests' = 0
    /\ updates' = 0

\* Request::Critical { expr, x, y, z } => critical_response(&expr, x, y, z)
RouteCritical ==
    /\ wspc = "recv"
    /\ inbox # <<>>
    /\ Head(inbox).kind = "text"
    /\ Head(inbox).body.cmd = "critical"
    /\ inbox' = Tail(inbox)
    /\ texts' = texts + 1
    /\ request' = Some(Head(inbox).body)
    /\ StartSolver(Head(inbox).body.expr,
                   Point(Head(inbox).body.x, Head(inbox).body.y, Head(inbox).body.z))
    /\ wspc' = "solve"
    /\ UNCHANGED <<response, outbox, codecVars, intervalVars>>

\* Request::GlslTopology and Request::CriticalTopology: topology_to_expr(&topology)
\* is entered
RouteTopology ==
    /\ wspc = "recv"
    /\ inbox # <<>>
    /\ Head(inbox).kind = "text"
    /\ Head(inbox).body.cmd \in {"glsl_topology", "critical_topology"}
    /\ inbox' = Tail(inbox)
    /\ texts' = texts + 1
    /\ request' = Some(Head(inbox).body)
    /\ program' = Head(inbox).body.topology
    /\ built' = NoTable
    /\ pos' = 0
    /\ decoded' = Running
    /\ exprs' = <<>>
    /\ wspc' = "decode"
    /\ UNCHANGED <<source, previous, response, outbox, intervalVars, solverVars>>

\* match topology_to_expr(&topology) { Ok(expr) => .., Err(err) => .. }; a panic
\* inside topology_to_expr unwinds handle_ws
Decoded ==
    /\ wspc = "decode"
    /\ decoded.tag \in {"Ok", "Err", "Panic"}
    /\ IF decoded.tag = "Panic"
       THEN /\ wspc' = "panicked"
            /\ UNCHANGED <<response, solverVars>>
       ELSE IF decoded.tag = "Err"
       THEN /\ response' = Some(ErrorResponse(<<"topology compile failed", decoded.msg>>))
            /\ wspc' = "send"
            /\ UNCHANGED solverVars
       ELSE IF request[2].cmd = "glsl_topology"
       THEN /\ response' = Some(GlslResponse(to_glsl(decoded.expr)))
            /\ wspc' = "send"
            /\ UNCHANGED solverVars
       ELSE /\ StartSolver(decoded.expr, Point(request[2].x, request[2].y, request[2].z))
            /\ wspc' = "solve"
            /\ UNCHANGED response
    /\ UNCHANGED <<inbox, request, outbox, texts, codecVars, intervalVars>>

\* refine_critical returned: critical_response builds the answer
Solved ==
    /\ wspc = "solve"
    /\ pc = "done"
    /\ response' = Some(critical_response(result))
    /\ wspc' = "send"
    /\ UNCHANGED <<inbox, request, outbox, texts, codecVars, intervalVars, solverVars>>

\* if socket.send(Message::Text(payload.into())).await.is_err() { break }
Send ==
    /\ wspc = "send"
    /\ \E sent \in BOOLEAN :
          IF sent
          THEN outbox' = Append(outbox, response[2]) /\ wspc' = "recv"
          ELSE outbox' = outbox /\ wspc' = "closed"
    /\ response' = None
    /\ UNCHANGED <<inbox, request, texts, codecVars, intervalVars, solverVars>>

NextServer ==
    \/ StreamEnd \/ StreamError \/ SkipFrame \/ BadRequest
    \/ RouteDirect \/ RouteCritical \/ RouteTopology
    \/ DecodeOne \/ Finish \/ Decoded
    \/ Test \/ Newton \/ Exhausted \/ Solved
    \/ Send

SpecServer == InitServer /\ [][NextServer]_vars

-----------------------------------------------------------------------------
(* Properties of the codec *)

Done == decoded.tag \in {"Ok", "Err", "Panic"}
Nodes == program.nodes

\* the ids defined by the nodes that precede place i of the list
DefinedBefore(i) == {Nodes[j].id : j \in 1..(i - 1)}

ListsUndefinedInput(i) ==
    \E k \in DOMAIN Nodes[i].inputs : Nodes[i].inputs[k] \notin DefinedBefore(i)

WrongArity(i) ==
    \/ Nodes[i].op \in {"neg", "sin", "cos", "exp", "translate", "rotate_z"}
          /\ Len(Nodes[i].inputs) # 1
    \/ Nodes[i].op \in BinaryTags /\ Len(Nodes[i].inputs) # 2

LacksParam(i) ==
    \E k \in Range(RequiredKeys(Nodes[i].op)) :
        k \notin DOMAIN Nodes[i].params \/ Nodes[i].params[k][1] # "num"

UnsupportedTag(i) == Nodes[i].op \notin SupportedTags

\* the decoder stopped at place i of the list
StoppedAt(i) == decoded.tag \in {"Err", "Panic"} /\ i = pos + 1 /\ i <= Len(Nodes)

IsErr(kinds) == decoded.tag = "Err" /\ decoded.msg[1] \in kinds

\* C1: decoding the encoder's output for an expression succeeds and yields
\* structurally the same tree with the same literals.
C1_RoundTrip == Done => decoded = Ok(source)

\* C3: a node whose number of inputs differs from the arity of its tag (2 for
\* the binary tags, 1 for neg, sin, cos, exp, translate, rotate_z) is never
\* decoded, and the decoder stops at it with the arity error, not a panic.
C3_ArityChecked ==
    \A i \in DOMAIN Nodes :
        WrongArity(i) =>
            /\ i > pos
            /\ StoppedAt(i) => IsErr({"expects 1 input", "expects 2 inputs"})

\* C4: a node that lists an input id which no earlier node defines (a forward
\* reference and a self reference included) is never decoded: the decoder
\* stops at it, returning an Err.
C4_UndefinedInputRejected ==
    \A i \in DOMAIN Nodes :
        ListsUndefinedInput(i) =>
            /\ i > pos
            /\ StoppedAt(i) => decoded.tag = "Err"

\* C5: a program with a node whose parameter map lacks a required key, or holds
\* a non-number under it, makes topology_to_expr return an Err.
C5_MissingParamRejected ==
    (Done /\ \E i \in DOMAIN Nodes : LacksParam(i)) => decoded.tag = "Err"

\* C6 as claimed: every program that contains a node with an unsupported tag
\* makes topology_to_expr return the unsupported-operator Err.
C6_Original ==
    (Done /\ \E i \in DOMAIN Nodes : UnsupportedTag(i)) =>
        IsErr({"unsupported topology op"})

\* C6: a program that contains a node with an unsupported tag is never decoded
\* to Ok, no node with an unsupported tag is ever decoded, and when the decoder
\* stops at such a node it returns the unsupported-operator Err naming the tag.
C6_Unsupported ==
    /\ (Done /\ \E i \in DOMAIN Nodes : UnsupportedTag(i)) => decoded.tag # "Ok"
    /\ \A i \in DOMAIN Nodes :
          UnsupportedTag(i) =>
              /\ i > pos
              /\ StoppedAt(i) => decoded = Err(<<"unsupported topology op", Nodes[i].op>>)

\* the decoder went through two valid nodes and stopped at an unsupported third
C6_Witness ==
    /\ pos = 2
    /\ StoppedAt(3)
    /\ UnsupportedTag(3)
    /\ decoded.tag = "Err"

\* the last place of the list whose node carries the root id (0 if none does)
RootPlace ==
    LET places == {i \in DOMAIN Nodes : Nodes[i].id = program.root}
    IN  IF places = {} THEN 0 ELSE CHOOSE i \in places : \A j \in places : j <= i

\* C7: when every node decodes, topology_to_expr returns the root-not-found Err
\* if no node carries the root id (the empty list included), and otherwise
\* exactly the expression built for the node carrying the root id.
C7_Root ==
    (Done /\ pos = Len(Nodes) /\ decoded.tag # "Panic") =>
        IF RootPlace = 0
        THEN decoded = Err(<<"root node not found", program.root>>)
        ELSE decoded = Ok(exprs[RootPlace])

\* three nodes decoded and the root names one that is not the last
C7_Witness ==
    /\ Done
    /\ pos = 3
    /\ Len(Nodes) = 3
    /\ RootPlace \in {1, 2}
    /\ decoded = Ok(exprs[RootPlace])
    /\ exprs[RootPlace] # exprs[3]

\* the place of the node that defines id for a node in place i: the last
\* earlier node carrying that id (0 if none does)
PlaceOf(id, i) ==
    LET places == {j \in 1..(i - 1) : Nodes[j].id = id}
    IN  IF places = {} THEN 0 ELSE CHOOSE j \in places : \A k \in places : k <= j

WellFormed(i) ==
    /\ ~UnsupportedTag(i)
    /\ ~WrongArity(i)
    /\ ~ListsUndefinedInput(i)
    /\ ~LacksParam(i)

\* the tree the node in place i stands for, the tree of an input written out
\* again at each place the input is used
RECURSIVE Expand(_)
Expand(i) ==
    LET nd == Nodes[i]
        kid(k) == Expand(PlaceOf(nd.inputs[k], i))
        num(key) == nd.params[key][2]
    IN  CASE nd.op = "const" -> Const(num("value"))
          [] nd.op = "x" -> X
          [] nd.op = "y" -> Y
          [] nd.op = "z" -> Z
          [] nd.op = "sphere" -> sphere(num("r"))
          [] nd.op = "cylinder" -> cylinder(num("r"), num("h"))
          [] nd.op = "box" -> box3(num("sx"), num("sy"), num("sz"))
          [] nd.op = "torus" -> torus(num("major_r"), num("minor_r"))
          [] nd.op = "add" -> Add(kid(1), kid(2))
          [] nd.op = "sub" -> Sub(kid(1), kid(2))
          [] nd.op = "mul" -> Mul(kid(1), kid(2))
          [] nd.op = "div" -> Div(kid(1), kid(2))
          [] nd.op \in {"min", "union"} -> Min(kid(1), kid(2))
          [] nd.op \in {"max", "intersect"} -> Max(kid(1), kid(2))
          [] nd.op = "difference" -> Max(kid(1), Neg(kid(2)))
          [] nd.op = "smin" -> SMin(kid(1), kid(2), num("k"))
          [] nd.op = "smax" -> SMax(kid(1), kid(2), num("k"))
          [] nd.op = "neg" -> Neg(kid(1))
          [] nd.op = "sin" -> Sin(kid(1))
          [] nd.op = "cos" -> Cos(kid(1))
          [] nd.op = "exp" -> Exp(kid(1))
          [] nd.op = "translate" -> Translate(kid(1), num("dx"), num("dy"), num("dz"))
          [] nd.op = "rotate_z" -> RotateZ(kid(1), num("deg"))

\* some id is listed as an input twice: by two nodes or twice by one node
SharesAnInput ==
    \E i, j \in DOMAIN Nodes : \E k \in DOMAIN Nodes[i].inputs : \E l \in DOMAIN Nodes[j].inputs :
        /\ <<i, k>> # <<j, l>>
        /\ Nodes[i].inputs[k] = Nodes[j].inputs[l]
        /\ PlaceOf(Nodes[i].inputs[k], i) = PlaceOf(Nodes[j].inputs[l], j)

\* C16: a program whose nodes are all well formed and in which an id is used as
\* an input by two or more later nodes, or twice by one node, decodes: the
\* result is the tree in which the shared sub-expression is written out at
\* each use (and so evaluates as that tree).
C16_SharedInputsCopied ==
    (/\ Done
     /\ \A i \in DOMAIN Nodes : WellFormed(i)
     /\ SharesAnInput
     /\ RootPlace # 0) => decoded = Ok(Expand(RootPlace))

\* n0 = x is the input of n1 = neg and of n2 = add(n0, n1)
C16_Witness ==
    /\ Done
    /\ Len(Nodes) = 3
    /\ Nodes[1].op = "x"
    /\ Nodes[2].op = "neg" /\ Nodes[2].inputs = <<"n0">>
    /\ Nodes[3].op = "add" /\ Nodes[3].inputs = <<"n0", "n1">>
    /\ program.root = "n2"
    /\ SharesAnInput
    /\ decoded = Ok(Add(X, Neg(X)))

\* the expression built for the k-th input of the decoded node in place i
InputExpr(i, k) == exprs[PlaceOf(Nodes[i].inputs[k], i)]

\* the first place of the list whose node has a defect: an unsupported tag, a
\* missing parameter, an undefined input or a wrong number of inputs (0 if no
\* node has one)
FirstDefect ==
    LET places == {i \in DOMAIN Nodes : ~WellFormed(i)}
    IN  IF places = {} THEN 0 ELSE CHOOSE i \in places : \A j \in places : i <= j

\* C24: every node of the list is validated in list order, whether the root
\* reaches it or not: a program with a defective node makes topology_to_expr
\* return Err, and the Err is that of the first defective node of the list.
C24_FirstDefectReported ==
    (Done /\ FirstDefect # 0) =>
        /\ decoded.tag = "Err"
        /\ StoppedAt(FirstDefect)

\* two nodes of the list carry one id
HasDuplicateId == \E i, j \in DOMAIN Nodes : i < j /\ Nodes[i].id = Nodes[j].id

\* C23: a program in which two nodes share an id is not rejected for that. An
\* input reference resolves to the last definition of the id placed before the
\* referring node (the earlier definition for a reference between the two, the
\* later one for a reference after the second), and a root naming the id
\* resolves to its last definition.
C23_LaterDefinitionWins ==
    HasDuplicateId =>
        /\ (Done /\ RootPlace # 0 /\ \A i \in DOMAIN Nodes : WellFormed(i)) =>
              decoded.tag = "Ok"
        /\ \A i \in DOMAIN exprs :
              /\ Nodes[i].op \in {"neg", "sin", "cos", "exp"} =>
                    exprs[i].a = InputExpr(i, 1)
              /\ Nodes[i].op \in {"add", "sub", "mul", "div", "min", "max"} =>
                    /\ exprs[i].a = InputExpr(i, 1)
                    /\ exprs[i].b = InputExpr(i, 2)
        /\ decoded.tag = "Ok" => decoded.expr = exprs[RootPlace]

\* n0 = x, n1 = neg(n0), n0 = y, n2 = add(n0, n1): n1 is -x and n2 is y + (-x)
C23_Witness ==
    /\ Nodes = ShadowNodes
    /\ program.root = "n2"
    /\ HasDuplicateId
    /\ exprs = <<X, Neg(X), Y, Add(Y, Neg(X))>>
    /\ decoded = Ok(Add(Y, Neg(X)))

\* C17: the decoder expands union(a, b) to Min(a, b), intersect(a, b) to
\* Max(a, b), difference(a, b) to Max(a, Neg(b)) and sphere, cylinder, box,
\* torus to the expressions of the constructors of those names; the program
\* difference(sphere{r:1}, translate{dx:0.75, dy:0, dz:0}(cylinder{r:0.25, h:2}))
\* decodes to an expression that is negative at the origin and positive at
\* (0.75, 0, 0.2).
C17_HighLevelTags ==
    /\ \A i \in 1..pos :
          LET nd == Nodes[i]
              num(key) == nd.params[key][2]
          IN  /\ nd.op = "union" => exprs[i] = Min(InputExpr(i, 1), InputExpr(i, 2))
              /\ nd.op = "intersect" => exprs[i] = Max(InputExpr(i, 1), InputExpr(i, 2))
              /\ nd.op = "difference" =>
                    exprs[i] = Max(InputExpr(i, 1), Neg(InputExpr(i, 2)))
              /\ nd.op = "sphere" => exprs[i] = sphere(num("r"))
              /\ nd.op = "cylinder" => exprs[i] = cylinder(num("r"), num("h"))
              /\ nd.op = "box" => exprs[i] = box3(num("sx"), num("sy"), num("sz"))
              /\ nd.op = "torus" => exprs[i] = torus(num("major_r"), num("minor_r"))
    /\ (Done /\ program = SceneS7) =>
          /\ decoded.tag = "Ok"
          /\ NLt(eval(decoded.expr, Origin), Zero)
          /\ NGt(eval(decoded.expr, Point(<<3, 4>>, Zero, <<1, 5>>)), Zero)

\* the sphere less the moved cylinder is decoded
C17_Witness ==
    /\ program = SceneS7
    /\ decoded = Ok(Max(sphere(One),
                        Neg(Translate(cylinder(<<1, 4>>, Int2Num(2)), <<3, 4>>, Zero, Zero))))

\* the nodes of e in depth-first post-order: the children left to right, then e
RECURSIVE PostOrder(_)
PostOrder(e) ==
    IF e.op \in BinaryOps \cup SmoothOps THEN Append(PostOrder(e.a) \o PostOrder(e.b), e)
    ELSE IF e.op \in UnaryOps THEN Append(PostOrder(e.a), e)
    ELSE IF e.op \in {"Translate", "RotateZ"} THEN Append(PostOrder(e.expr), e)
    ELSE <<e>>

\* the places at which the id of the node in place j is listed as an input
UsesOf(j) ==
    {<<i, k>> \in (DOMAIN Nodes) \X (1..2) :
        k \in DOMAIN Nodes[i].inputs /\ Nodes[i].inputs[k] = Nodes[j].id}

\* C20: expr_to_topology emits one node for each node of the expression, in
\* depth-first post-order, with the ids n0, n1, ... in that order: the ids are
\* pairwise distinct, every input id is the id of an earlier node, every id but
\* the root's is listed as an input exactly once, and the root id is the id of
\* the last node.
C20_EncoderShape ==
    source # NoExpr =>
        /\ Len(Nodes) = Len(PostOrder(source))
        /\ \A i \in DOMAIN Nodes :
              /\ Nodes[i].op = EncoderTag(PostOrder(source)[i])
              /\ Nodes[i].id = "n" \o ToString(i - 1)
              /\ \A j \in DOMAIN Nodes : Nodes[i].id = Nodes[j].id => i = j
              /\ \A k \in DOMAIN Nodes[i].inputs :
                    \E j \in 1..(i - 1) : Nodes[j].id = Nodes[i].inputs[k]
              /\ Cardinality(UsesOf(i)) = IF i = Len(Nodes) THEN 0 ELSE 1
        /\ program.root = Nodes[Len(Nodes)].id

\* the tube scene: twenty-five expression nodes, twenty-five graph nodes, root n24
C20_Witness ==
    /\ source = tube(One, <<3, 5>>, <<6, 5>>)
    /\ Len(Nodes) = 25
    /\ program.root = "n24"
    /\ Nodes[25].inputs = <<"n18", "n23">>
    /\ Nodes[18].inputs = <<"n9", "n16">>

\* C15: the outcome of topology_to_expr depends on the node list and the root
\* id only: a program that differs from another in the format string, the
\* invariants list and the signature alone decodes to the same outcome, the
\* same expression or the same error.
C15_MetadataIgnored ==
    (Done /\ previous # None) => decoded = previous[2]

\* a program decoded to an expression under the default metadata and again
\* under another format, no invariants and another signature
C15_Witness ==
    /\ Done
    /\ previous # None
    /\ decoded.tag = "Ok"
    /\ program.format # DefaultMeta.format
    /\ program.invariants # DefaultMeta.invariants
    /\ program.signature # DefaultMeta.signature
    /\ Len(Nodes) = 2

-----------------------------------------------------------------------------
(* Properties of the interval interpreter *)

RECURSIVE SubExprs(_)
SubExprs(e) ==
    {e} \cup
    (IF e.op \in BinaryOps \cup SmoothOps THEN SubExprs(e.a) \cup SubExprs(e.b)
     ELSE IF e.op \in UnaryOps THEN SubExprs(e.a)
     ELSE IF e.op \in {"Translate", "RotateZ"} THEN SubExprs(e.expr)
     ELSE {})

OpsOf(e) == {s.op : s \in SubExprs(e)}

Computed == enclosure # None /\ value # None

\* eval_interval(e, X, Y, Z).lo <= eval(e, q) <= eval_interval(e, X, Y, Z).hi
Contained == NLe(enclosure[2].lo, value[2]) /\ NLe(value[2], enclosure[2].hi)

\* eval_interval gives e and each of its sub-expressions finite ends over the box
FiniteEnclosures(e) ==
    \A s \in SubExprs(e) :
        LET iv == eval_interval(s, box.x, box.y, box.z)
        IN  IsFinite(iv.lo) /\ IsFinite(iv.hi)

C22_TranslateKeepsBox ==
    (field # NoExpr /\ field.op = "Translate" /\ enclosure # None) =>
        enclosure = Some(eval_interval(field.expr, box.x, box.y, box.z))

\* x * y moved by (0.5, -1, 2) over the box [-1, 1] x [0, 1] x [1, 2]: the ends
\* are those of x * y over the box itself, [-1, 1]
C22_Witness ==
    /\ field = Translate(Mul(X, Y), Half, Int2Num(-1), Int2Num(2))
    /\ box = Point(Interval(Int2Num(-1), One), Interval(Zero, One),
                   Interval(One, Int2Num(2)))
    /\ enclosure = Some(Interval(Int2Num(-1), One))

-----------------------------------------------------------------------------
(* Properties of the three interpreters on one expression *)

\* C11: eval, eval_ad and eval_interval evaluate every expression to a result,
\* an expression with a RotateZ node included: none leaves it unhandled.
C11_RotateZHandled ==
    /\ value # Unhandled
    /\ dual # Unhandled
    /\ enclosure # Unhandled

Rho2(p) == NAdd(NMul(p.x, p.x), NMul(p.y, p.y))
Norm2(p) == NAdd(Rho2(p), NMul(p.z, p.z))
Square(v) == NMul(v, v)

\* p lies strictly inside the solid the primitive q is meant to be: the ball of
\* radius r; the cylinder of radius r on 0 < z < h; the box of sides sx, sy, sz
\* about the origin; the ring of points nearer than minor_r to the circle of
\* radius major_r in the plane z = 0, (rho - R)^2 + z^2 < r^2, which for R > r
\* is (|p|^2 + R^2 - r^2)^2 < 4 R^2 rho^2; the tube inner_r < rho < outer_r,
\* |z| < half_h
StrictlyInside(q, p) ==
    CASE q.kind = "sphere" -> NLt(Norm2(p), Square(q.r))
      [] q.kind = "cylinder" ->
            NLt(Rho2(p), Square(q.r)) /\ NLt(Zero, p.z) /\ NLt(p.z, q.h)
      [] q.kind = "box3" ->
            /\ NLt(NAbs(p.x), NMul(q.sx, Half))
            /\ NLt(NAbs(p.y), NMul(q.sy, Half))
            /\ NLt(NAbs(p.z), NMul(q.sz, Half))
      [] q.kind = "torus" ->
            NLt(Square(NSub(NAdd(Norm2(p), Square(q.major_r)), Square(q.minor_r))),
                NMul(NMul(Int2Num(4), Square(q.major_r)), Rho2(p)))
      [] q.kind = "tube" ->
            /\ NLt(Square(q.inner_r), Rho2(p))
            /\ NLt(Rho2(p), Square(q.outer_r))
            /\ NLt(Square(p.z), Square(q.half_h))

\* p lies strictly outside that solid
StrictlyOutside(q, p) ==
    CASE q.kind = "sphere" -> NGt(Norm2(p), Square(q.r))
      [] q.kind = "cylinder" ->
            NGt(Rho2(p), Square(q.r)) \/ NLt(p.z, Zero) \/ NGt(p.z, q.h)
      [] q.kind = "box3" ->
            \/ NGt(NAbs(p.x), NMul(q.sx, Half))
            \/ NGt(NAbs(p.y), NMul(q.sy, Half))
            \/ NGt(NAbs(p.z), NMul(q.sz, Half))
      [] q.kind = "torus" ->
            NGt(Square(NSub(NAdd(Norm2(p), Square(q.major_r)), Square(q.minor_r))),
                NMul(NMul(Int2Num(4), Square(q.major_r)), Rho2(p)))
      [] q.kind = "tube" ->
            \/ NGt(Square(q.inner_r), Rho2(p))
            \/ NGt(Rho2(p), Square(q.outer_r))
            \/ NGt(Square(p.z), Square(q.half_h))

\* C12: for each primitive constructor with positive parameters, eval of the
\* primitive is below 0 at every point strictly inside the intended solid and
\* above 0 at every point strictly outside it.
C12_SignPredicate ==
    (value # None /\ value # Unhandled) =>
        \A q \in Primitives :
            field = q.e =>
                /\ StrictlyInside(q, point) => NLt(value[2], Zero)
                /\ StrictlyOutside(q, point) => NGt(value[2], Zero)

\* the point p - d for the offsets of the Translate node at the root of field
ShiftedPoint ==
    Point(NSub(point.x, field.dx), NSub(point.y, field.dy), NSub(point.z, field.dz))

\* C13: eval of Translate{e, dx, dy, dz} at p is eval of e at p - d, and eval_ad
\* of the Translate node returns the value and the three partial derivatives
\* eval_ad returns for e at p - d.
C13_TranslateEquivariance ==
    field.op = "Translate" =>
        /\ value[1] = "Some" => value[2] = eval(field.expr, ShiftedPoint)
        /\ dual[1] = "Some" =>
              /\ dual[2].v = eval_ad(field.expr, ShiftedPoint).v
              /\ dual[2].g = eval_ad(field.expr, ShiftedPoint).g

\* x * y moved by (1/2, -1, 2): the value and the gradient at p differ from
\* those of x * y at p itself
C13_Witness ==
    /\ field = Translate(Mul(X, Y), Half, Int2Num(-1), Int2Num(2))
    /\ value[1] = "Some"
    /\ dual[1] = "Some"
    /\ value[2] = eval(Mul(X, Y), ShiftedPoint)
    /\ value[2] # eval(Mul(X, Y), point)
    /\ dual[2].g # eval_ad(Mul(X, Y), point).g

\* the partial derivative of a polynomial expression e along axis ("X", "Y" or
\* "Z") by the sum and product rules, as an expression
RECURSIVE Partial(_, _)
Partial(e, axis) ==
    CASE e.op = "Const" -> Const(Zero)
      [] e.op \in {"X", "Y", "Z"} -> Const(IF e.op = axis THEN One ELSE Zero)
      [] e.op = "Add" -> Add(Partial(e.a, axis), Partial(e.b, axis))
      [] e.op = "Sub" -> Sub(Partial(e.a, axis), Partial(e.b, axis))
      [] e.op = "Mul" -> Add(Mul(Partial(e.a, axis), e.b), Mul(Partial(e.b, axis), e.a))
      [] e.op = "Neg" -> Neg(Partial(e.a, axis))

IsPolynomial(e) == OpsOf(e) \subseteq {"Const", "X", "Y", "Z", "Add", "Sub", "Mul", "Neg"}

\* C14: for an expression over Const, X, Y, Z, Add, Sub, Mul and Neg, eval_ad
\* returns v equal to eval at the point and g equal to the partial derivatives
\* the sum and product rules give; a constant carries (0, 0, 0) and X, Y, Z the
\* unit vector of their axis; x*x + y*y + z*z at (2, -3, 4) has v = 29 and
\* g = (4, -6, 8).
C14_ExactGradient ==
    (IsPolynomial(field) /\ value[1] = "Some" /\ dual[1] = "Some") =>
        /\ dual[2].v = value[2]
        /\ dual[2].g = <<eval(Partial(field, "X"), point),
                         eval(Partial(field, "Y"), point),
                         eval(Partial(field, "Z"), point)>>
        /\ field.op = "Const" => dual[2].g = <<Zero, Zero, Zero>>
        /\ field = X => dual[2].g = <<One, Zero, Zero>>
        /\ field = Y => dual[2].g = <<Zero, One, Zero>>
        /\ field = Z => dual[2].g = <<Zero, Zero, One>>
        /\ (field = SumOfSquares /\ point = Point(Int2Num(2), Int2Num(-3), Int2Num(4))) =>
              /\ dual[2].v = Int2Num(29)
              /\ dual[2].g = <<Int2Num(4), Int2Num(-6), Int2Num(8)>>

\* x*x + y*y + z*z evaluated by eval and by eval_ad at (2, -3, 4)
C14_Witness ==
    /\ field = SumOfSquares
    /\ point = Point(Int2Num(2), Int2Num(-3), Int2Num(4))
    /\ value = Some(Int2Num(29))
    /\ dual[1] = "Some"
    /\ dual[2].g = <<Int2Num(4), Int2Num(-6), Int2Num(8)>>

\* C21: at a Min or Max node eval_ad returns the dual of one child whole (value
\* and gradient), never a blend: at Min the child of strictly smaller value, at
\* Max the child of strictly larger value; and the value of the dual returned
\* is what eval returns for the node.
C21_SelectsOneChild ==
    (/\ field # NoExpr
     /\ field.op \in {"Min", "Max"}
     /\ HasArms(field)
     /\ dual # None
     /\ value # None) =>
        LET da == eval_ad(field.a, point)
            db == eval_ad(field.b, point)
            d == dual[2]
        IN  /\ d \in {da, db}
            /\ field.op = "Min" =>
                  /\ NLt(da.v, db.v) => d = da
                  /\ NLt(db.v, da.v) => d = db
            /\ field.op = "Max" =>
                  /\ NGt(da.v, db.v) => d = da
                  /\ NGt(db.v, da.v) => d = db
            /\ d.v = value[2]

-----------------------------------------------------------------------------
(* Properties of the solver *)

Finite3(p) == IsFinite(p.x) /\ IsFinite(p.y) /\ IsFinite(p.z)

\* solve3 finds no pivot of magnitude 1e-12 in some column at the current point
SingularHere == solve3(hessian(expr, here, HessianEps), VNeg(gradient(expr, here))) = None

\* the norm of g is below 1e-8: its square n/d is below 1e-16
NormBelowTolerance(g) ==
    LET s == NAdd(NAdd(NMul(g[1], g[1]), NMul(g[2], g[2])), NMul(g[3], g[3]))
    IN  IsFinite(s) /\ s[1] >= 0 /\ s[1] <= ((s[2] - 1) \div 100000000) \div 100000000

\* C8: refine_critical ends with None or Some(point) and nothing else; it
\* returns None when solve3 finds a column without a pivot of magnitude 1e-12,
\* when a coordinate is not finite after an update, and when the 24 rounds
\* are used up; and it returns None for no other reason.
C8_FailureIsNone ==
    /\ result = Pending \/ result = None \/ result[1] = "Some"
    /\ pc = "done" <=> result # Pending
    /\ (updates > 0 /\ ~Finite3(here)) => (pc = "done" /\ result = None)
    /\ (pc = "done" /\ iter = 24) => result = None
    /\ (pc = "done" /\ Finite3(here) /\ ~NormBelowTolerance(gradient(expr, here))
          /\ SingularHere) => result = None
    /\ (pc = "done" /\ result = None) =>
          \/ updates > 0 /\ ~Finite3(here)
          \/ iter = 24
          \/ ~NormBelowTolerance(gradient(expr, here)) /\ SingularHere

\* an update made a coordinate infinite and the call returned None
C8_Witness ==
    /\ pc = "done"
    /\ result = None
    /\ updates > 0
    /\ ~Finite3(here)

\* the counters of refine_critical stay within the budget of 24 rounds, and a
\* round tests before it updates
WithinBudget ==
    /\ iter \in 0..24
    /\ tests \in 0..24
    /\ updates \in 0..24
    /\ updates <= tests /\ tests <= updates + 1
    /\ pc = "test" => (tests = iter /\ updates = iter)
    /\ pc = "solve" => (tests = iter + 1 /\ updates = iter)
    /\ updates = 24 => (tests = 24 /\ pc # "solve" /\ result \in {Pending, None})
    /\ (updates = 24 /\ pc = "done") => result = None

\* every step of refine_critical is a test, an update or the return
Progress ==
    \/ pc' = "done"
    \/ tests' + updates' = tests + updates + 1

\* C9: refine_critical makes at most 24 rounds; each round tests the gradient
\* at the current point before it solves and updates, so there are at most 24
\* tests and at most 24 updates; the point reached by the 24th update is not
\* tested and the call returns None; every step before the return is one of
\* these tests or updates, so the call returns within 49 steps.
C9_Budget == []WithinBudget /\ [][Progress]_vars

\* all 24 rounds were used: 24 tests, 24 updates, None
C9_Witness ==
    /\ pc = "done"
    /\ updates = 24
    /\ tests = 24
    /\ result = None

\* C10: when refine_critical returns Some(point), the returned x, y, z are the
\* point at which the convergence test succeeded, the norm of the gradient
\* there is below 1e-8, f is the value of the field there, and index is one of
\* 0, 1, 2, 3.
C10_PointIsCritical ==
    (result # Pending /\ result # None) =>
        LET cp == result[2]
            at == Point(cp.x, cp.y, cp.z)
        IN  /\ at = here
            /\ tests = updates + 1
            /\ NormBelowTolerance(gradient(expr, at))
            /\ cp.f = eval_ad(expr, at).v
            /\ cp.index \in 0..3

\* a point found after at least one Newton update, away from the seed
C10_Witness ==
    /\ result # Pending
    /\ result # None
    /\ updates >= 1
    /\ here # seed
    /\ result[2].index = 0


\* C25: when the norm of the gradient at the seed is below 1e-8,
\* refine_critical returns Some with x, y, z the seed itself, without a call
\* of solve3 (the solve step is never entered and no update is made), also
\* where solve3 would find no pivot; so for a Const expression every finite
\* seed is returned as a critical point, f the literal and index 0.
C25_SeedAlreadyCritical ==
    /\ NormBelowTolerance(gradient(expr, seed)) =>
          /\ pc # "solve"
          /\ updates = 0
          /\ pc = "done" =>
                /\ result # None
                /\ <<result[2].x, result[2].y, result[2].z>> = <<seed.x, seed.y, seed.z>>
                /\ tests = 1
    /\ (expr.op = "Const" /\ Finite3(seed) /\ pc = "done") =>
          result = Some(CriticalPoint(seed, expr.c, 0))

\* the constant 1/3 at the seed (0, 2, -1): solve3 would find no pivot there,
\* and the seed is returned
C25_Witness ==
    /\ pc = "done"
    /\ expr = Const(<<1, 3>>)
    /\ seed = Point(Zero, Int2Num(2), Int2Num(-1))
    /\ SingularHere
    /\ result = Some(CriticalPoint(seed, <<1, 3>>, 0))

-----------------------------------------------------------------------------
(* Properties of the websocket server *)

\* the request being answered is one of the two critical-point requests
AnsweringCritical ==
    /\ wspc = "send"
    /\ request # None
    /\ request[2].cmd \in {"critical", "critical_topology"}

\* C18: a critical-point request is never answered with an error that stems
\* from the solver. For a plain expression the response is the critical
\* variant; for a topology program the response is an error only when
\* topology_to_expr returned Err, and the critical variant once it returned
\* Ok. The critical variant has found = true with the point refine_critical
\* returned, or found = false when refine_critical returned None.
C18_CriticalNeverErrors ==
    AnsweringCritical =>
        LET r == response[2]
        IN  /\ request[2].cmd = "critical" => r.ok = "critical"
            /\ request[2].cmd = "critical_topology" =>
                  IF decoded.tag = "Ok"
                  THEN r.ok = "critical"
                  ELSE /\ decoded.tag = "Err"
                       /\ r.ok = "error"
                       /\ r.message = <<"topology compile failed", decoded.msg>>
            /\ r.ok = "critical" =>
                  IF r.found
                  THEN /\ result # None
                       /\ result[2] = [x |-> r.x, y |-> r.y, z |-> r.z, f |-> r.f,
                                       index |-> r.index]
                  ELSE result = None

\* a connection that was told "not found" for a plain expression and is now
\* being told the point found for a decoded program, after Newton updates
C18_Witness ==
    /\ AnsweringCritical
    /\ request[2].cmd = "critical_topology"
    /\ response[2].ok = "critical"
    /\ response[2].found
    /\ updates > 0
    /\ Len(outbox) = 1
    /\ outbox[1].ok = "critical"
    /\ ~outbox[1].found

\* C19: every text frame received is answered by exactly one response before
\* the next frame is read, a text that is no request included, and handle_ws
\* leaves its loop only when the stream ends or fails or a send fails.
C19_OneResponsePerText ==
    /\ wspc = "recv" => Len(outbox) = texts
    /\ wspc \in {"decode", "solve", "send"} => Len(outbox) = texts - 1
    /\ wspc # "panicked"

=============================================================================
